---------------------------- MODULE Spec2Model ----------------------------
(***************************************************************************)
(* The clarity cpufreq governor (drivers/cpufreq/cpufreq_clarity.c) and   *)
(* the side and zenplus I/O schedulers (block/side-iosched.c,              *)
(* block/zenplus-iosched.c) as state machines.                             *)
(*                                                                         *)
(* Rates are in kHz, as in the source.  TLC's integers are 32 bit signed,  *)
(* so an unsigned int is modelled UINT_BITS = 30 bits wide: every rate of  *)
(* the model is below 2^21, so a sum or product that fits 32 bits fits 30  *)
(* bits too, and a subtraction that wraps 32 bits wraps 30 bits to a value *)
(* above every rate, as it does in the source.                             *)
(*                                                                         *)
(* Several specifications share the variables:                             *)
(*   Spec       the governor with every handler one atomic action          *)
(*   SpecCycle  one unit's control cycles from every state an activation   *)
(*              and the tunables can leave it in                           *)
(*   SpecStore  the tunable store (the sysfs writers)                      *)
(*   SpecPower  the suspend/resume override and the tunables it reads      *)
(*   SpecUnits  activation and deactivation of units with a policy each    *)
(*   SpecConc   the locking and delayed-work protocol, one action per      *)
(*              lock operation or step between two lock operations         *)
(*   SpecTimer  the clock, the delayed work's timer and writes of the      *)
(*              sampling period                                            *)
(*   SpecStart  activations that are refused, fail half way or succeed     *)
(*   SpecPeriod the sampling period against its minimum, on platforms of   *)
(*              two transition latencies                                   *)
(*   SpecSample cycles of a two-cpu unit over every pair of readings       *)
(*   SpecElevator  a request queue with the side or the zenplus scheduler: *)
(*              requests added and dispatched while the clock runs         *)
(*   SpecStarve the zenplus scheduler with the reads that pass a queued    *)
(*              write counted                                              *)
(***************************************************************************)
EXTENDS Integers, Sequences, FiniteSets, TLC

(* ------------------------------ bounds -------------------------------- *)
\* number of processing units (CPUs)
NCPUS == 2
\* the utilization counters are TimeMod wide: they count 0..TimeMod-1 and wrap
TimeMod == 3
\* control cycles that run in one behaviour of Spec
MaxCycles == 2
\* worker pools that can exist at once before alloc_workqueue is out of memory
MaxPools == 3

(* ------------------------- program constants -------------------------- *)
DEF_SAMPLING_RATE == 40000
DEF_FREQUENCY_UP_THRESHOLD == 70
DEF_FREQUENCY_DOWN_THRESHOLD == 30
DEF_FREQ_MIDDLE == 787200
DEF_FREQ_MAX_SUSPEND == 787200
DEF_FREQ_AWAKE == 998400
DEF_FREQ_STEP_UP == 5
DEF_FREQ_STEP_DOWN == 5
DEF_IGNORE_NICE_LOADS == 0
DEF_IO_IS_BUSY == 0
MIN_SAMPLING_RATE_RATIO == 2
MIN_LATENCY_MULTIPLIER == 100
MICRO_FREQUENCY_MIN_SAMPLE_RATE == 10000

\* width of an unsigned int in the model (see the head of the module)
UINT_BITS == 30
UINT_MOD == 2 ^ UINT_BITS
\* unsigned int arithmetic
U32(x) == x % UINT_MOD

\* a null struct cpufreq_policy pointer (static per-cpu data starts zeroed)
NULL == -1
\* the request queue has no I/O scheduler attached
NoElevator == [elevator_name |-> "none"]
\* microseconds in one jiffy (HZ = 100)
USECS_PER_JIFFY == 10000
jiffies_to_usecs(j) == j * USECS_PER_JIFFY
\* usecs_to_jiffies rounds up
usecs_to_jiffies(u) == (u + USECS_PER_JIFFY - 1) \div USECS_PER_JIFFY
\* time_before(a, b) of two times the clock has not wrapped between
time_before(a, b) == a < b
\* the delay of do_dbs_timer and dbs_timer_init at time now: the period in
\* jiffies, shortened so that every cpu samples on the same jiffy
AlignedDelay(now, sampling_rate) ==
  usecs_to_jiffies(sampling_rate) - (now % usecs_to_jiffies(sampling_rate))
\* a delayed work queued on the pool wq whose timer expires at the time expires
Queued(wq, expires) == [pending |-> TRUE, wq |-> wq, expires |-> expires]
NotQueued == [pending |-> FALSE, wq |-> 0, expires |-> 0]
\* the utilization counters, in microseconds, wrap at TIME_MOD
TIME_MOD == TimeMod * USECS_PER_JIFFY
Ticks == 0 .. (TimeMod - 1)

EINVAL == 22
EFAULT == 14
ENOMEM == 12
\* what a sysfs store returns when it accepts the write: count, the bytes written
COUNT == 1

CPUFREQ_RELATION_L == "at_least"
CPUFREQ_RELATION_H == "at_most"

CPUS == 0 .. (NCPUS - 1)

\* the operating points of the rate driver's frequency table
FreqTable == {300000, 787200, 998400, 1190400}

Max(a, b) == IF a >= b THEN a ELSE b
Min(a, b) == IF a <= b THEN a ELSE b
SetMax(S) == CHOOSE x \in S : \A y \in S : y <= x
SetMin(S) == CHOOSE x \in S : \A y \in S : x <= y

(* ------------------------------ state --------------------------------- *)
VARIABLES
  dbs_tuners_ins,     \* the tunable store
  min_sampling_rate,  \* platform minimum of sampling_rate
  suspended,          \* static bool suspended
  dbs_info,           \* per-cpu struct cpu_dbs_info_s (clarity_cpu_dbs_info)
  policy,             \* the cpufreq core's struct cpufreq_policy, by policy->cpu
  dbs_enable,         \* number of CPUs using the governor
  dbs_wq,             \* the workqueue pointer: a pool id, 0 before the first
  pools,              \* the worker pools that exist (allocated, not destroyed), by id 1..MaxPools
  work,               \* per-cpu delayed work: pending or not, on which pool, and when its timer expires
  registered,         \* what is registered with the kernel: power handler, notifier, sysfs group
  power_state,        \* the power-state source: "active" or "suspended"
  oops,               \* the kernel has dereferenced a null or dangling pointer
  last,               \* the last handler that ran: its name, unit, return value, rate requests
  cycles,             \* control cycles run so far
  before_suspend,     \* the ceilings a suspend in force has lowered, as they were before it
  pc,                 \* where each thread is in the handler it runs
  timer_mutex,        \* per-cpu timer_mutex: the thread that holds it, or Free
  dbs_mutex,          \* dbs_mutex: the thread that holds it, or Free
  jiffies,            \* the kernel's clock, in jiffies since boot
  elevator_data       \* q->elevator->elevator_data: the I/O scheduler's data of the request queue

vars == <<dbs_tuners_ins, min_sampling_rate, suspended, dbs_info, policy,
          dbs_enable, dbs_wq, pools, work, registered, power_state,
          oops, last, cycles, before_suspend, pc, timer_mutex, dbs_mutex,
          jiffies, elevator_data>>

\* the locks and the threads' positions
sync == <<pc, timer_mutex, dbs_mutex>>

\* The threads: the worker that runs the delayed work, a writer of the sysfs
\* attributes, the cpufreq core calling the governor, the power-state source.
Threads == {"kworker", "sysfs", "cpufreq", "power"}
Free == "free"
\* a thread's position: the label, the cpu of the loop it is in, its
\* argument, and how many handlers it has run to the end
Idle == [at |-> "idle", cpu |-> 0, arg |-> 0, runs |-> 0]


(* --------------------- the rate driver (cpufreq core) ------------------ *)
\* The part of the governor's state a handler works on: the per-cpu data, the
\* policies, whether the kernel has crashed, and the rate requests issued so far.
Machine == [di |-> dbs_info, pol |-> policy, oops |-> oops, reqs |-> <<>>]

\* cpufreq_cpu_get(cpu): the policy that manages cpu, by its policy->cpu
cpufreq_cpu_get(pol, cpu) == CHOOSE p \in CPUS : cpu \in pol[p].cpus

\* the operating points the policy allows
Allowed(p) == {f \in FreqTable : p.min <= f /\ f <= p.max}

\* cpufreq_frequency_table_target: the operating point for a target and a
\* relation; at_least takes the lowest point at or above the target, at_most
\* the highest at or below it, and either falls back to the nearest allowed
\* point on the other side.  The target is first clamped into the range.
TableTarget(p, target, relation) ==
  LET t == IF target > p.max THEN p.max ELSE IF target < p.min THEN p.min ELSE target
      up == {f \in Allowed(p) : f >= t}
      dn == {f \in Allowed(p) : f <= t}
  IN  IF relation = CPUFREQ_RELATION_L
      THEN (IF up # {} THEN SetMin(up) ELSE SetMax(dn))
      ELSE (IF dn # {} THEN SetMax(dn) ELSE SetMin(up))

\* dbs_cpufreq_notifier for one cpu of a policy whose rate changes to new
\* dbs_cpufreq_notifier without the test of lines 176-177
NotifierAlways(m, cpu, new) ==
  IF m.oops \/ ~m.di[cpu].enable THEN m
  ELSE [m EXCEPT !.di[cpu].requested_freq = new]

dbs_cpufreq_notifier(m, cpu, new) ==
  LET this == m.di[cpu] IN
  IF m.oops \/ ~this.enable THEN m
  ELSE IF this.cur_policy = NULL THEN [m EXCEPT !.oops = TRUE]
  ELSE LET pol == m.pol[this.cur_policy] IN
       IF this.requested_freq > pol.max \/ this.requested_freq < pol.min
       THEN [m EXCEPT !.di[cpu].requested_freq = new]
       ELSE m

\* the transition notifier chain, called for every cpu of the policy
RECURSIVE NotifyFrom(_, _, _, _)
NotifyFrom(m, p, new, cpu) ==
  IF cpu >= NCPUS THEN m
  ELSE NotifyFrom(IF cpu \in m.pol[p].cpus /\ registered.notifier
                  THEN dbs_cpufreq_notifier(m, cpu, new) ELSE m,
                  p, new, cpu + 1)

\* __cpufreq_driver_target(policy, target, relation): the request is recorded;
\* a null policy pointer is dereferenced; with no allowed operating point the
\* driver fails and changes nothing; otherwise the rate becomes the operating
\* point chosen, and a change of rate is notified.
cpufreq_driver_target(m, p, target, relation) ==
  IF m.oops THEN m
  ELSE IF p = NULL THEN [m EXCEPT !.oops = TRUE]
  ELSE LET m1 == [m EXCEPT !.reqs = Append(@, [policy |-> p, target |-> target,
                                                relation |-> relation])]
           pl == m.pol[p]
       IN  IF Allowed(pl) = {} THEN m1
           ELSE LET new == TableTarget(pl, target, relation) IN
                IF new = pl.cur THEN m1
                ELSE NotifyFrom([m1 EXCEPT !.pol[p].cur = new], p, new, 0)


(* ------------------------- utilization sampler ------------------------- *)
\* One reading of the utilization source for one cpu, in jiffies: the wall
\* clock, the idle time, the iowait time and the nice time.
Reading(w, i, io, n) == [wall |-> w, idle |-> i, iowait |-> io, nice |-> n]

\* get_cpu_idle_time: the idle time in microseconds; iowait counts as idle
\* unless io_is_busy is 1.  (*wall is jiffies_to_usecs(r.wall).)
get_cpu_idle_time(tun, r) ==
  (jiffies_to_usecs(r.idle)
     + (IF tun.io_is_busy # 1 THEN jiffies_to_usecs(r.iowait) ELSE 0)) % TIME_MOD

\* the load sampling loop of dbs_check_cpu for one cpu j: the new per-cpu
\* data of j and the load of j, or -1 when the sample is skipped
SampleCpu(tun, this, r) ==
  LET cur_wall_time == jiffies_to_usecs(r.wall)
      cur_idle_time == get_cpu_idle_time(tun, r)
      wall_time == (cur_wall_time - this.prev_cpu_wall) % TIME_MOD
      idle0 == (cur_idle_time - this.prev_cpu_idle) % TIME_MOD
      cur_nice_jiffies == (r.nice - this.prev_cpu_nice) % TimeMod
      idle_time == IF tun.ignore_nice # 0
                   THEN U32(idle0 + jiffies_to_usecs(cur_nice_jiffies))
                   ELSE idle0
      this1 == [this EXCEPT !.prev_cpu_wall = cur_wall_time,
                            !.prev_cpu_idle = cur_idle_time,
                            !.prev_cpu_nice = IF tun.ignore_nice # 0 THEN r.nice ELSE @]
  IN  [info |-> this1,
       load |-> IF wall_time = 0 \/ wall_time < idle_time THEN -1
                ELSE (100 * (wall_time - idle_time)) \div wall_time]

\* the sampling loop with "max_load = load" for every sample not skipped, in
\* place of the test of lines 616-617
RECURSIVE SampleFromLast(_, _, _, _, _, _)
SampleFromLast(tun, di, cpus, src, j, max_load) ==
  IF j >= NCPUS THEN [di |-> di, max_load |-> max_load]
  ELSE IF j \notin cpus THEN SampleFromLast(tun, di, cpus, src, j + 1, max_load)
  ELSE LET s == SampleCpu(tun, di[j], src[j]) IN
       SampleFromLast(tun, [di EXCEPT ![j] = s.info], cpus, src, j + 1,
                      IF s.load # -1 THEN s.load ELSE max_load)

\* for_each_cpu(j, policy->cpus): the per-cpu data after the loop and max_load
RECURSIVE SampleFrom(_, _, _, _, _, _)
SampleFrom(tun, di, cpus, src, j, max_load) ==
  IF j >= NCPUS THEN [di |-> di, max_load |-> max_load]
  ELSE IF j \notin cpus THEN SampleFrom(tun, di, cpus, src, j + 1, max_load)
  ELSE LET s == SampleCpu(tun, di[j], src[j]) IN
       SampleFrom(tun, [di EXCEPT ![j] = s.info], cpus, src, j + 1,
                  IF s.load > max_load THEN s.load ELSE max_load)

(* --------------------------- decision engine --------------------------- *)
\* the increase zone with the test of lines 623-624 left out
IncreaseZoneNoGuard(m, tun, cpu, p) ==
  LET m1 == [m EXCEPT !.di[cpu].down_skip = 0]
      pl == m.pol[p]
  IN  IF m1.di[cpu].requested_freq = pl.max THEN m1
      ELSE LET t0 == U32(tun.freq_step_up * pl.cpuinfo_max_freq) \div 100
               freq_target == IF t0 = 0 THEN 5 ELSE t0
               r0 == U32(m1.di[cpu].requested_freq + freq_target)
               r1 == IF r0 > pl.max THEN pl.max ELSE r0
           IN  cpufreq_driver_target([m1 EXCEPT !.di[cpu].requested_freq = r1],
                                     p, r1, CPUFREQ_RELATION_L)

\* the increase zone of dbs_check_cpu (max_load > up_threshold)
IncreaseZone(m, tun, cpu, p) ==
  IF tun.freq_step_up = 0 THEN m
  ELSE LET m1 == [m EXCEPT !.di[cpu].down_skip = 0]
           pl == m.pol[p]
       IN  IF m1.di[cpu].requested_freq = pl.max THEN m1
           ELSE LET t0 == U32(tun.freq_step_up * pl.cpuinfo_max_freq) \div 100
                    freq_target == IF t0 = 0 THEN 5 ELSE t0
                    r0 == U32(m1.di[cpu].requested_freq + freq_target)
                    r1 == IF r0 > pl.max THEN pl.max ELSE r0
                IN  cpufreq_driver_target([m1 EXCEPT !.di[cpu].requested_freq = r1],
                                          p, r1, CPUFREQ_RELATION_L)

\* the decrease zone of dbs_check_cpu (max_load < down_threshold)
DecreaseRequested(req, freq_target, min) ==
  LET r0 == U32(req - freq_target) IN IF r0 < min THEN min ELSE r0

DecreaseZone(m, tun, cpu, p) ==
  IF tun.freq_step_down = 0 THEN m
  ELSE LET pl == m.pol[p]
           freq_target == U32(tun.freq_step_down * pl.cpuinfo_max_freq) \div 100
           r1 == DecreaseRequested(m.di[cpu].requested_freq, freq_target, pl.min)
           m1 == [m EXCEPT !.di[cpu].requested_freq = r1]
       IN  IF pl.cur = pl.min THEN m1
           ELSE cpufreq_driver_target(m1, p, r1, CPUFREQ_RELATION_H)

\* the settle zone with lines 677-680 left out: freq_middle is requested as it is
SettleZoneUnclamped(m, tun, cpu, p) ==
  IF m.pol[p].cur = tun.freq_middle THEN m
  ELSE cpufreq_driver_target([m EXCEPT !.di[cpu].requested_freq = tun.freq_middle],
                             p, tun.freq_middle, CPUFREQ_RELATION_L)

\* the settle zone of dbs_check_cpu (between the thresholds)
SettleZone(m, tun, cpu, p) ==
  LET pl == m.pol[p] IN
  IF pl.cur = tun.freq_middle THEN m
  ELSE LET r1 == IF tun.freq_middle > pl.max THEN pl.max
                 ELSE IF tun.freq_middle < pl.min THEN pl.min
                 ELSE tun.freq_middle
       IN  cpufreq_driver_target([m EXCEPT !.di[cpu].requested_freq = r1],
                                 p, r1, CPUFREQ_RELATION_L)

\* dbs_check_cpu(this_dbs_info) with the readings src of the utilization source
dbs_check_cpu(m, tun, cpu, src) ==
  LET p == m.di[cpu].cur_policy IN
  IF m.oops THEN m
  ELSE IF p = NULL THEN [m EXCEPT !.oops = TRUE]
  ELSE LET s == SampleFrom(tun, m.di, m.pol[p].cpus, src, 0, 0)
           m1 == [m EXCEPT !.di = s.di]
       IN  IF s.max_load > tun.up_threshold THEN IncreaseZone(m1, tun, cpu, p)
           ELSE IF s.max_load < tun.down_threshold THEN DecreaseZone(m1, tun, cpu, p)
           ELSE SettleZone(m1, tun, cpu, p)


(* ------------------------ limits and power state ----------------------- *)
\* case CPUFREQ_GOV_LIMITS of cpufreq_governor_dbs, for the policy p whose
\* range has changed; this_dbs_info is the per-cpu data of policy->cpu
\* CPUFREQ_GOV_LIMITS without the branch of lines 847-849
LimitsMaxOnly(m, p) ==
  LET this == m.di[p] IN
  IF m.oops THEN m
  ELSE IF this.cur_policy = NULL THEN [m EXCEPT !.oops = TRUE]
  ELSE IF m.pol[p].max < m.pol[this.cur_policy].cur
       THEN cpufreq_driver_target(m, this.cur_policy, m.pol[p].max, CPUFREQ_RELATION_H)
       ELSE m

governor_limits(m, p) ==
  LET this == m.di[p] IN
  IF m.oops THEN m
  ELSE IF this.cur_policy = NULL THEN [m EXCEPT !.oops = TRUE]
  ELSE LET cur == m.pol[this.cur_policy].cur IN
       IF m.pol[p].max < cur
       THEN cpufreq_driver_target(m, this.cur_policy, m.pol[p].max, CPUFREQ_RELATION_H)
       ELSE IF m.pol[p].min > cur
       THEN cpufreq_driver_target(m, this.cur_policy, m.pol[p].min, CPUFREQ_RELATION_L)
       ELSE m

\* What the cpufreq core does for a policy whose range has changed: a unit
\* under this governor gets CPUFREQ_GOV_LIMITS; for any other unit the rate
\* is brought into the range by whoever governs it.
cpufreq_update_policy(m, cpu) ==
  LET p == cpufreq_cpu_get(m.pol, cpu) IN
  IF m.oops THEN m
  ELSE IF m.di[p].enable THEN governor_limits(m, p)
  ELSE IF Allowed(m.pol[p]) = {} THEN m
  ELSE [m EXCEPT !.pol[p].cur = TableTarget(m.pol[p], m.pol[p].cur, CPUFREQ_RELATION_H)]

\* which per-cpu data the resume branch of suspend_resume restores from
ResumeInfo(cpu) == IF cpu # 0 THEN 0 ELSE cpu

\* the body of the for_each_online_cpu loop of suspend_resume for one cpu
suspend_resume_cpu(m, tun, suspend, cpu) ==
  LET p == cpufreq_cpu_get(m.pol, cpu) IN
  IF m.oops THEN m
  ELSE IF suspend
  THEN cpufreq_update_policy(
         [m EXCEPT !.di[cpu].cpu_maxcur_freq = m.pol[p].max,
                   !.pol[p].max = tun.freq_max_suspend,
                   !.pol[p].cpuinfo_max_freq = tun.freq_max_suspend], cpu)
  ELSE LET cpu_info == m.di[ResumeInfo(cpu)] IN
       cpufreq_update_policy(
         [m EXCEPT !.pol[p].cpuinfo_max_freq = cpu_info.cpu_max_freq,
                   !.pol[p].max = cpu_info.cpu_maxcur_freq], cpu)

RECURSIVE suspend_resume_from(_, _, _, _)
suspend_resume_from(m, tun, suspend, cpu) ==
  IF cpu >= NCPUS THEN m
  ELSE suspend_resume_from(suspend_resume_cpu(m, tun, suspend, cpu), tun, suspend, cpu + 1)

suspend_resume(m, tun, suspend) == suspend_resume_from(m, tun, suspend, 0)

\* the second loop of clarity_late_resume: the awake rate is requested for
\* every online cpu through the cur_policy of its per-cpu data
RECURSIVE awake_from(_, _, _)
awake_from(m, tun, cpu) ==
  IF cpu >= NCPUS THEN m
  ELSE awake_from(cpufreq_driver_target(m, m.di[cpu].cur_policy, tun.freq_awake,
                                        CPUFREQ_RELATION_L),
                  tun, cpu + 1)

\* clarity_power_suspend without the test of lines 219-220
PowerSuspendAlways(m, tun) == suspend_resume(m, tun, TRUE)

clarity_power_suspend(m, tun) ==
  IF tun.freq_max_suspend = 0 THEN m ELSE suspend_resume(m, tun, TRUE)

clarity_late_resume(m, tun) ==
  IF tun.freq_max_suspend = 0 THEN m
  ELSE awake_from(suspend_resume(m, tun, FALSE), tun, 0)


(* ------------------------------- Init ---------------------------------- *)
TunerDefaults ==
  [sampling_rate |-> DEF_SAMPLING_RATE,
   up_threshold |-> DEF_FREQUENCY_UP_THRESHOLD,
   down_threshold |-> DEF_FREQUENCY_DOWN_THRESHOLD,
   ignore_nice |-> DEF_IGNORE_NICE_LOADS,
   freq_middle |-> DEF_FREQ_MIDDLE,
   freq_step_up |-> DEF_FREQ_STEP_UP,
   freq_step_down |-> DEF_FREQ_STEP_DOWN,
   freq_max_suspend |-> DEF_FREQ_MAX_SUSPEND,
   freq_awake |-> DEF_FREQ_AWAKE,
   io_is_busy |-> DEF_IO_IS_BUSY]

\* static DEFINE_PER_CPU(struct cpu_dbs_info_s, ...): zeroed
DbsInfoZero ==
  [prev_cpu_idle |-> 0, prev_cpu_wall |-> 0, prev_cpu_nice |-> 0,
   cur_policy |-> NULL, down_skip |-> 0, requested_freq |-> 0,
   cpu_max_freq |-> 0, cpu_maxcur_freq |-> 0, enable |-> FALSE]

\* The policies the cpufreq core hands to the governor: the range [min, max]
\* lies within the table, the rate is an allowed operating point, and
\* cpuinfo.max_freq, the highest rate of the unit, is the ceiling.  The
\* highest rate of cpu 0 is the table's highest point, the highest rate of
\* every other cpu with a policy of its own is InitMaxOther.
InitMaxOther == DEF_FREQ_AWAKE
InitCur == DEF_FREQ_MIDDLE
\* policy->cpuinfo.transition_latency of the platform, in nanoseconds
InitLatency == 200 * 1000
PolicyOf(cpus, max, cur) ==
  [cpus |-> cpus, min |-> SetMin(FreqTable), max |-> max,
   cpuinfo_max_freq |-> max, cur |-> cur,
   transition_latency |-> InitLatency]
\* no policy has this cpu as its policy->cpu
NoPolicy == PolicyOf({}, SetMax(FreqTable), SetMin(FreqTable))

\* every cpu has a policy of its own
PerCpuPolicies ==
  [c \in CPUS |-> PolicyOf({c}, IF c = 0 THEN SetMax(FreqTable) ELSE InitMaxOther, InitCur)]
\* all cpus share the policy of cpu 0
SharedPolicy ==
  [c \in CPUS |-> IF c = 0 THEN PolicyOf(CPUS, SetMax(FreqTable), InitCur) ELSE NoPolicy]

\* the cpus that are the policy->cpu of a policy
PolicyCpus == {p \in CPUS : policy[p].cpus # {}}

\* what is recorded of the last handler: its name, the cpu it ran for, its
\* return value, the rate requests it issued and its input
NoArg == [ret |-> 0, input |-> 0]
Last(op, cpu, ret, reqs) ==
  [op |-> op, cpu |-> cpu, ret |-> ret, reqs |-> reqs, arg |-> NoArg]

\* the ceiling and the highest rate of every policy
Ceilings(pol) ==
  [c \in CPUS |-> [max |-> pol[c].max, cpuinfo_max_freq |-> pol[c].cpuinfo_max_freq]]
NoCeilings ==
  [taken |-> FALSE, of |-> [c \in CPUS |-> [max |-> 0, cpuinfo_max_freq |-> 0]]]

\* the state after module initialisation, on a platform with the policies pol
InitGovernor(pol) ==
  /\ dbs_tuners_ins = TunerDefaults
  /\ min_sampling_rate = 0
  /\ suspended = FALSE
  /\ dbs_info = [c \in CPUS |-> DbsInfoZero]
  /\ policy = pol
  /\ dbs_enable = 0
  /\ dbs_wq = 0
  /\ pools = {}
  /\ work = [c \in CPUS |-> NotQueued]
  /\ registered = [power |-> FALSE, notifier |-> FALSE, sysfs |-> FALSE]
  /\ power_state = "active"
  /\ oops = FALSE
  /\ last = Last("init", NULL, 0, <<>>)
  /\ cycles = 0
  /\ before_suspend = NoCeilings
  /\ pc = [t \in Threads |-> Idle]
  /\ timer_mutex = [c \in CPUS |-> Free]
  /\ dbs_mutex = Free
  /\ jiffies = 0
InitWith(pol) ==
  /\ InitGovernor(pol)
  /\ elevator_data = NoElevator

Init == InitWith(SharedPolicy)

\* the readings of the utilization source a handler can get for the cpus it reads
Readings == {Reading(w, i, 0, 0) : w \in Ticks, i \in Ticks}
\* the readings at an activation
StartReadings == {Reading(0, 0, 0, 0), Reading(1, 2, 0, 0)}
\* every cpu of a group reports the same utilization
SameForAll(readings) == {[c \in CPUS |-> r] : r \in readings}

\* a handler's result written to the variables it works on
Commit(m, op, cpu, ret, arg) ==
  /\ dbs_info' = m.di
  /\ policy' = m.pol
  /\ oops' = m.oops
  /\ last' = [Last(op, cpu, ret, m.reqs) EXCEPT !.arg = arg]

(* ----------------------- the control cycle ------------------------------ *)
\* do_dbs_timer for the delayed work of cpu, when its timer fires, which is
\* not before it expires: the clock is then at the expiry or past it.  The work
\* was queued on work[cpu].wq and is queued again on dbs_wq; either may have
\* been destroyed, and then the kernel reads freed memory: it crashes or goes
\* on as if the pool were there (ub).  A null dbs_wq crashes.
do_dbs_timer(cpu, src, ub) ==
  /\ ~oops
  /\ work[cpu].pending
  /\ jiffies' = Max(jiffies, work[cpu].expires)
  /\ UNCHANGED elevator_data
  /\ IF work[cpu].wq \notin pools /\ ub = "oops"
     THEN /\ oops' = TRUE
          /\ work' = [work EXCEPT ![cpu].pending = FALSE]
          /\ last' = [Last("do_dbs_timer", cpu, 0, <<>>) EXCEPT !.arg = NoArg]
          /\ UNCHANGED <<dbs_info, policy>>
     ELSE LET m == dbs_check_cpu(Machine, dbs_tuners_ins, cpu, src) IN
          IF m.oops
          THEN /\ Commit(m, "do_dbs_timer", cpu, 0, src)
               /\ work' = [work EXCEPT ![cpu].pending = FALSE]
          ELSE IF dbs_wq = 0 \/ (dbs_wq \notin pools /\ ub = "oops")
          THEN /\ Commit([m EXCEPT !.oops = TRUE], "do_dbs_timer", cpu, 0, src)
               /\ work' = [work EXCEPT ![cpu].pending = FALSE]
          ELSE /\ Commit(m, "do_dbs_timer", cpu, 0, src)
               /\ work' = [work EXCEPT ![cpu] =
                             Queued(dbs_wq, jiffies' + AlignedDelay(jiffies', dbs_tuners_ins.sampling_rate))]
  /\ cycles' = cycles + 1
  /\ UNCHANGED <<dbs_tuners_ins, min_sampling_rate, suspended, dbs_enable, dbs_wq,
                 pools, registered, power_state, before_suspend, pc, timer_mutex,
                 dbs_mutex>>


(* --------------------- activation and deactivation --------------------- *)
\* the for_each_cpu(j, policy->cpus) loop of CPUFREQ_GOV_START
RECURSIVE StartInitFrom(_, _, _, _, _, _)
StartInitFrom(di, tun, cpus, p, src, j) ==
  IF j >= NCPUS THEN di
  ELSE IF j \notin cpus THEN StartInitFrom(di, tun, cpus, p, src, j + 1)
  ELSE StartInitFrom(
         [di EXCEPT ![j].cur_policy = p,
                    ![j].prev_cpu_idle = get_cpu_idle_time(tun, src[j]),
                    ![j].prev_cpu_wall = jiffies_to_usecs(src[j].wall),
                    ![j].prev_cpu_nice = IF tun.ignore_nice # 0 THEN src[j].nice ELSE @],
         tun, cpus, p, src, j + 1)

\* which policy CPUFREQ_GOV_START initialises the unit from: line 754
\* replaces the policy it was called for by cpufreq_cpu_get(0)
StartPolicy(pol, cpu) == cpufreq_cpu_get(pol, 0)

\* the per-cpu data di after the initialisation of CPUFREQ_GOV_START for cpu
StartInfoOf(di, pol, tun, cpu, src) ==
  LET p == StartPolicy(pol, cpu)
      di1 == [di EXCEPT ![0].cpu_max_freq = pol[p].cpuinfo_max_freq,
                        ![0].cpu_maxcur_freq = pol[p].max]
      di2 == StartInitFrom(di1, tun, pol[p].cpus, p, src, 0)
  IN  [di2 EXCEPT ![cpu].down_skip = 0, ![cpu].requested_freq = pol[p].cur]

StartInfo(cpu, src) == StartInfoOf(dbs_info, policy, dbs_tuners_ins, cpu, src)

\* min_sampling_rate as the first activation computes it
MinSamplingRate(nohz, pl) ==
  LET base == IF nohz THEN MICRO_FREQUENCY_MIN_SAMPLE_RATE
              ELSE MIN_SAMPLING_RATE_RATIO * jiffies_to_usecs(10)
      lat0 == pl.transition_latency \div 1000
      latency == IF lat0 = 0 THEN 1 ELSE lat0
  IN  Max(base, MIN_LATENCY_MULTIPLIER * latency)

\* alloc_workqueue: the memory of a destroyed pool is used again, so a new
\* pool gets the lowest id that no pool has
FreePools == (1 .. MaxPools) \ pools
NewPool == SetMin(FreePools)

\* case CPUFREQ_GOV_START of cpufreq_governor_dbs followed by dbs_timer_init.
\* alloc_ok and sysfs_ok say whether alloc_workqueue and sysfs_create_group
\* succeed, nohz whether get_cpu_idle_time_us is available.
\* the guard of CPUFREQ_GOV_START: the cpu is offline or its policy reports
\* no current rate
StartRefusedNoRate(cpu, online) == ~online
StartRefused(cpu, online) == ~online \/ policy[cpu].cur = 0

GovStartCalled(cpu, online, alloc_ok, sysfs_ok, nohz, src) ==
  /\ ~oops
  /\ cpu \in PolicyCpus
  /\ ~dbs_info[cpu].enable
  /\ UNCHANGED <<jiffies, elevator_data>>
  /\ UNCHANGED <<dbs_tuners_ins, policy, oops, power_state, cycles, before_suspend,
                 dbs_mutex>>
  /\ IF StartRefused(cpu, online)
     THEN /\ last' = Last("GOV_START", cpu, -EINVAL, <<>>)
          /\ UNCHANGED <<min_sampling_rate, suspended, dbs_info, dbs_enable, dbs_wq,
                         pools, work, registered, timer_mutex>>
     ELSE IF ~alloc_ok \/ FreePools = {}
     THEN /\ dbs_wq' = 0
          /\ last' = Last("GOV_START", cpu, -EFAULT, <<>>)
          /\ UNCHANGED <<min_sampling_rate, suspended, dbs_info, dbs_enable,
                         pools, work, registered, timer_mutex>>
     ELSE /\ pools' = pools \cup {NewPool}
          /\ dbs_wq' = NewPool
          /\ suspended' = FALSE
          /\ dbs_enable' = U32(dbs_enable + 1)
          /\ timer_mutex' = [timer_mutex EXCEPT ![cpu] = Free]
          /\ IF dbs_enable' = 1 /\ ~sysfs_ok
             THEN /\ min_sampling_rate' =
                       (IF nohz THEN MICRO_FREQUENCY_MIN_SAMPLE_RATE
                        ELSE MIN_SAMPLING_RATE_RATIO * jiffies_to_usecs(10))
                  /\ dbs_info' = StartInfo(cpu, src)
                  /\ last' = Last("GOV_START", cpu, -ENOMEM, <<>>)
                  /\ UNCHANGED <<work, registered>>
             ELSE /\ min_sampling_rate' =
                       (IF dbs_enable' = 1 THEN MinSamplingRate(nohz, policy[StartPolicy(policy, cpu)])
                        ELSE min_sampling_rate)
                  /\ registered' =
                       [power |-> TRUE,
                        notifier |-> (dbs_enable' = 1) \/ registered.notifier,
                        sysfs |-> (dbs_enable' = 1) \/ registered.sysfs]
                  /\ dbs_info' = [StartInfo(cpu, src) EXCEPT ![cpu].enable = TRUE]
                  /\ work' = [work EXCEPT ![cpu] =
                                Queued(NewPool, jiffies + (IF NCPUS > 1
                                   THEN AlignedDelay(jiffies, dbs_tuners_ins.sampling_rate)
                                   ELSE usecs_to_jiffies(dbs_tuners_ins.sampling_rate)))]
                  /\ last' = Last("GOV_START", cpu, 0, <<>>)

GovStart(cpu, online, alloc_ok, sysfs_ok, nohz, src) ==
  GovStartCalled(cpu, online, alloc_ok, sysfs_ok, nohz, src) /\ UNCHANGED pc

\* case CPUFREQ_GOV_STOP of cpufreq_governor_dbs, dbs_timer_exit included.
\* destroy_workqueue of a null pointer crashes; of a pool already destroyed
\* it reads freed memory (ub).
GovStop(cpu, ub) ==
  /\ ~oops
  /\ dbs_info[cpu].enable
  /\ dbs_info' = [dbs_info EXCEPT ![cpu].enable = FALSE]
  /\ work' = [work EXCEPT ![cpu].pending = FALSE]
  /\ dbs_enable' = U32(dbs_enable - 1)
  /\ last' = Last("GOV_STOP", cpu, 0, <<>>)
  /\ IF dbs_wq = 0 \/ (dbs_wq \notin pools /\ ub = "oops")
     THEN /\ oops' = TRUE
          /\ registered' = [registered EXCEPT !.power = FALSE]
          /\ UNCHANGED pools
     ELSE /\ oops' = FALSE
          /\ pools' = pools \ {dbs_wq}
          /\ registered' =
               [power |-> FALSE,
                notifier |-> registered.notifier /\ dbs_enable' # 0,
                sysfs |-> registered.sysfs /\ dbs_enable' # 0]
  /\ UNCHANGED <<jiffies, elevator_data>>
  /\ UNCHANGED <<dbs_tuners_ins, min_sampling_rate, suspended, policy, dbs_wq,
                 power_state, cycles, before_suspend, pc, timer_mutex, dbs_mutex>>

(* ------------------------ events from outside -------------------------- *)
\* The cpufreq core changes the range of policy p to [min, max] and tells the
\* governor (CPUFREQ_GOV_LIMITS).
PolicyLimits(p, min, max) ==
  /\ ~oops
  /\ p \in PolicyCpus
  /\ min <= max
  /\ <<min, max>> # <<policy[p].min, policy[p].max>>
  /\ Commit(cpufreq_update_policy(
              [Machine EXCEPT !.pol[p].min = min, !.pol[p].max = max], p),
            "GOV_LIMITS", p, 0, NoArg)
  /\ UNCHANGED <<jiffies, elevator_data>>
  /\ UNCHANGED <<dbs_tuners_ins, min_sampling_rate, suspended, dbs_enable, dbs_wq,
                 pools, work, registered, power_state, cycles, before_suspend,
                 pc, timer_mutex, dbs_mutex>>

\* The rate of policy p changes to new out of band; the transition notifier
\* chain is called.  Recorded with the handler: the new rate and the
\* requested_freq every cpu had when the chain was called.
ExternalRateChange(p, new) ==
  /\ ~oops
  /\ p \in PolicyCpus
  /\ new \in Allowed(policy[p])
  /\ new # policy[p].cur
  /\ Commit(NotifyFrom([Machine EXCEPT !.pol[p].cur = new], p, new, 0),
            "notifier", p, 0,
            [new |-> new, requested_freq |-> [c \in CPUS |-> dbs_info[c].requested_freq]])
  /\ UNCHANGED <<jiffies, elevator_data>>
  /\ UNCHANGED <<dbs_tuners_ins, min_sampling_rate, suspended, dbs_enable, dbs_wq,
                 pools, work, registered, power_state, cycles, before_suspend,
                 pc, timer_mutex, dbs_mutex>>

\* The power-state source goes from active to suspended and calls the
\* registered handler, clarity_power_suspend.
PowerSuspend ==
  /\ ~oops
  /\ power_state = "active"
  /\ power_state' = "suspended"
  /\ IF registered.power
     THEN /\ suspended' = TRUE
          /\ Commit(clarity_power_suspend(Machine, dbs_tuners_ins), "suspend", NULL, 0, NoArg)
          /\ before_suspend' =
               IF dbs_tuners_ins.freq_max_suspend # 0 /\ ~before_suspend.taken
               THEN [taken |-> TRUE, of |-> Ceilings(policy)]
               ELSE before_suspend
     ELSE UNCHANGED <<suspended, dbs_info, policy, oops, last, before_suspend>>
  /\ UNCHANGED <<jiffies, elevator_data>>
  /\ UNCHANGED <<dbs_tuners_ins, min_sampling_rate, dbs_enable, dbs_wq,
                 pools, work, registered, cycles, pc, timer_mutex, dbs_mutex>>

\* The power-state source goes from suspended to active and calls the
\* registered handler, clarity_late_resume.
PowerResume ==
  /\ ~oops
  /\ power_state = "suspended"
  /\ power_state' = "active"
  /\ IF registered.power
     THEN /\ suspended' = FALSE
          /\ Commit(clarity_late_resume(Machine, dbs_tuners_ins), "resume", NULL, 0, NoArg)
          /\ before_suspend' = NoCeilings
     ELSE UNCHANGED <<suspended, dbs_info, policy, oops, last, before_suspend>>
  /\ UNCHANGED <<jiffies, elevator_data>>
  /\ UNCHANGED <<dbs_tuners_ins, min_sampling_rate, dbs_enable, dbs_wq,
                 pools, work, registered, cycles, pc, timer_mutex, dbs_mutex>>


(* --------------------------- tunable store ----------------------------- *)
\* What sscanf(buf, "%u", &input) makes of a write: ret is 1 and input the
\* number when buf starts with an unsigned number, and ret is not 1 otherwise.
Buf(n) == [ret |-> 1, input |-> n]
Malformed == [ret |-> 0, input |-> 0]

\* A store handler's outcome: the store after it and its return value.
Accept(tun) == [tun |-> tun, ret |-> COUNT]
Reject == [tun |-> dbs_tuners_ins, ret |-> -EINVAL]

\* update_sampling_rate's first statement: the period is raised to the minimum
SamplingRateClamped(new_rate) == Max(new_rate, min_sampling_rate)

store_sampling_rate(buf) ==
  IF buf.ret # 1 THEN Reject
  ELSE Accept([dbs_tuners_ins EXCEPT !.sampling_rate = SamplingRateClamped(buf.input)])

UpThresholdNoOrder(buf) ==
  IF buf.ret # 1 \/ buf.input > 100 THEN Reject
  ELSE Accept([dbs_tuners_ins EXCEPT !.up_threshold = buf.input])
store_up_threshold(buf) ==
  IF buf.ret # 1 \/ buf.input > 100 \/ buf.input <= dbs_tuners_ins.down_threshold
  THEN Reject
  ELSE Accept([dbs_tuners_ins EXCEPT !.up_threshold = buf.input])

store_down_threshold(buf) ==
  IF buf.ret # 1 \/ buf.input < 11 \/ buf.input > 100
     \/ buf.input >= dbs_tuners_ins.up_threshold
  THEN Reject
  ELSE Accept([dbs_tuners_ins EXCEPT !.down_threshold = buf.input])

store_ignore_nice_load(buf) ==
  IF buf.ret # 1 THEN Reject
  ELSE Accept([dbs_tuners_ins EXCEPT !.ignore_nice = IF buf.input > 1 THEN 1 ELSE buf.input])

store_freq_middle(buf) ==
  IF buf.ret # 1 THEN Reject
  ELSE Accept([dbs_tuners_ins EXCEPT !.freq_middle = buf.input])

store_freq_step_up(buf) ==
  IF buf.ret # 1 THEN Reject
  ELSE Accept([dbs_tuners_ins EXCEPT !.freq_step_up = IF buf.input > 100 THEN 100 ELSE buf.input])

store_freq_step_down(buf) ==
  IF buf.ret # 1 THEN Reject
  ELSE Accept([dbs_tuners_ins EXCEPT !.freq_step_down = IF buf.input > 100 THEN 100 ELSE buf.input])

IoIsBusyStoredFirst(buf) ==
  IF buf.ret # 1 THEN Reject
  ELSE [tun |-> [dbs_tuners_ins EXCEPT !.io_is_busy = buf.input],
        ret |-> IF buf.input > 1 THEN -EINVAL ELSE COUNT]
store_io_is_busy(buf) ==
  IF buf.ret # 1 \/ buf.input > 1 THEN Reject
  ELSE Accept([dbs_tuners_ins EXCEPT !.io_is_busy = buf.input])

\* policy = cpufreq_cpu_get(0)
store_freq_max_suspend(buf) ==
  IF buf.ret # 1
     \/ buf.input > policy[cpufreq_cpu_get(policy, 0)].max
     \/ buf.input < 0
     \/ buf.input < dbs_tuners_ins.freq_middle
  THEN Reject
  ELSE Accept([dbs_tuners_ins EXCEPT !.freq_max_suspend = buf.input])

store_freq_awake(buf) ==
  IF buf.ret # 1
     \/ buf.input > policy[cpufreq_cpu_get(policy, 0)].max
     \/ buf.input < 0
  THEN Reject
  ELSE Accept([dbs_tuners_ins EXCEPT !.freq_awake = buf.input])

Tunables == {"sampling_rate", "up_threshold", "down_threshold", "ignore_nice_load",
             "freq_middle", "freq_step_up", "freq_step_down", "io_is_busy",
             "freq_max_suspend", "freq_awake"}

\* the store handler of each attribute of dbs_attr_group
StoreOf(attr, buf) ==
  CASE attr = "sampling_rate" -> store_sampling_rate(buf)
    [] attr = "up_threshold" -> store_up_threshold(buf)
    [] attr = "down_threshold" -> store_down_threshold(buf)
    [] attr = "ignore_nice_load" -> store_ignore_nice_load(buf)
    [] attr = "freq_middle" -> store_freq_middle(buf)
    [] attr = "freq_step_up" -> store_freq_step_up(buf)
    [] attr = "freq_step_down" -> store_freq_step_down(buf)
    [] attr = "io_is_busy" -> store_io_is_busy(buf)
    [] attr = "freq_max_suspend" -> store_freq_max_suspend(buf)
    [] attr = "freq_awake" -> store_freq_awake(buf)

\* the loop of update_sampling_rate over the online cpus: the pending work of
\* update_sampling_rate without the test of line 321: every pending work is
\* cancelled and queued again
RequeueAlways(new_rate) ==
  [c \in CPUS |->
     IF c \in PolicyCpus /\ work[c].pending
     THEN Queued(dbs_wq, jiffies + usecs_to_jiffies(new_rate)) ELSE work[c]]

\* the work of a policy's cpu whose new wake time is earlier than the one
\* appointed is cancelled and queued again on dbs_wq, one new period from now
RequeueEarlier(new_rate) ==
  [c \in CPUS |->
     IF c \in PolicyCpus /\ work[c].pending
        /\ time_before(jiffies + usecs_to_jiffies(new_rate), work[c].expires)
     THEN Queued(dbs_wq, jiffies + usecs_to_jiffies(new_rate)) ELSE work[c]]

\* the loop of store_ignore_nice_load over the online cpus, when the value changes
RebaseCounters(tun, src) ==
  [j \in CPUS |->
     [dbs_info[j] EXCEPT !.prev_cpu_idle = get_cpu_idle_time(tun, src[j]),
                         !.prev_cpu_wall = jiffies_to_usecs(src[j].wall),
                         !.prev_cpu_nice = IF tun.ignore_nice # 0 THEN src[j].nice ELSE @]]

\* A write of buf to the attribute attr of the sysfs group "clarity", which
\* exists while registered.sysfs.
Store(attr, buf, src, ub) ==
  /\ ~oops
  /\ registered.sysfs
  /\ LET r == StoreOf(attr, buf)
         requeue == attr = "sampling_rate" /\ r.ret = COUNT
                    /\ RequeueEarlier(r.tun.sampling_rate) # work
     IN
     /\ dbs_tuners_ins' = r.tun
     /\ last' = [Last(attr, NULL, r.ret, <<>>) EXCEPT !.arg = buf]
     /\ work' = IF requeue THEN RequeueEarlier(r.tun.sampling_rate) ELSE work
     /\ oops' = (requeue /\ (dbs_wq = 0 \/ (dbs_wq \notin pools /\ ub = "oops")))
     /\ dbs_info' = IF attr = "ignore_nice_load" /\ r.ret = COUNT
                       /\ r.tun.ignore_nice # dbs_tuners_ins.ignore_nice
                    THEN RebaseCounters(r.tun, src) ELSE dbs_info
  /\ UNCHANGED <<jiffies, elevator_data>>
  /\ UNCHANGED <<min_sampling_rate, suspended, policy, dbs_enable, dbs_wq, pools,
                 registered, power_state, cycles, before_suspend, pc, timer_mutex,
                 dbs_mutex>>


(* --------------------------- specifications ---------------------------- *)
\* the outcomes of reading freed memory
UB == {"works", "oops"}

\* the ranges the cpufreq core sets in Spec
LimitRanges == {<<300000, 1190400>>, <<787200, 998400>>}

Start ==
  \E cpu \in CPUS, src \in SameForAll(StartReadings) :
    FreePools # {} /\ GovStart(cpu, TRUE, TRUE, TRUE, TRUE, src)

Stop == \E cpu \in CPUS, ub \in UB : GovStop(cpu, ub)

Cycle ==
  \E cpu \in CPUS, ub \in UB, src \in SameForAll(Readings) :
    cycles < MaxCycles /\ do_dbs_timer(cpu, src, ub)

\* Spec follows the ranges and rates of the units under this governor only
Limits ==
  \E p \in CPUS, r \in LimitRanges : dbs_info[p].enable /\ PolicyLimits(p, r[1], r[2])

RateChange ==
  \E p \in CPUS, new \in FreqTable : dbs_info[p].enable /\ ExternalRateChange(p, new)

Next ==
  \/ Start
  \/ Cycle
  \/ Limits
  \/ RateChange
  \/ PowerSuspend
  \/ PowerResume

Spec == Init /\ [][Next]_vars

(* ---------------- SpecCycle: the decision cycle alone ----------------- *)
\* control cycles that run in one behaviour of SpecCycle
MaxSteps == 3
\* The tunable store keeps its values over a deactivation, so a unit can be
\* activated under any accepted configuration.  The step sizes of SpecCycle:
StepsUp == {0, DEF_FREQ_STEP_UP}
StepsDown == {0, DEF_FREQ_STEP_DOWN, 30}
\* store_freq_middle accepts every number: the middle rates of SpecCycle are
\* below every range, inside every range and above the narrow range
Middles == {0, DEF_FREQ_MIDDLE, SetMax(FreqTable)}
CycleConfigs ==
  {[TunerDefaults EXCEPT !.freq_step_up = u, !.freq_step_down = d, !.freq_middle = mid] :
     u \in StepsUp, d \in StepsDown, mid \in Middles}

\* Unit 0, which governs every cpu, just activated (CPUFREQ_GOV_START has
\* returned 0) under a configuration of CycleConfigs, in a range of
\* LimitRanges, at an operating point of the range.
InitCycle ==
  \E tun \in CycleConfigs, r \in LimitRanges, cur \in FreqTable :
    /\ r[1] <= cur /\ cur <= r[2]
    /\ LET pol == [SharedPolicy EXCEPT ![0].min = r[1], ![0].max = r[2], ![0].cur = cur]
           src == [c \in CPUS |-> Reading(0, 0, 0, 0)]
       IN  /\ dbs_tuners_ins = tun
           /\ policy = pol
           /\ dbs_info = [StartInfoOf([c \in CPUS |-> DbsInfoZero], pol, tun, 0, src)
                            EXCEPT ![0].enable = TRUE]
           /\ min_sampling_rate = MinSamplingRate(TRUE, pol[0])
    /\ suspended = FALSE
    /\ dbs_enable = 1
    /\ dbs_wq = 1
    /\ pools = {1}
    /\ work = [c \in CPUS |->
                 IF c = 0 THEN Queued(1, AlignedDelay(0, DEF_SAMPLING_RATE)) ELSE NotQueued]
    /\ registered = [power |-> TRUE, notifier |-> TRUE, sysfs |-> TRUE]
    /\ power_state = "active"
    /\ oops = FALSE
    /\ last = Last("GOV_START", 0, 0, <<>>)
    /\ cycles = 0
    /\ before_suspend = NoCeilings
    /\ pc = [t \in Threads |-> Idle]
    /\ timer_mutex = [c \in CPUS |-> Free]
    /\ dbs_mutex = Free
    /\ jiffies = 0
    /\ elevator_data = NoElevator

CycleStep ==
  \E cpu \in CPUS, src \in SameForAll(Readings) :
    cycles < MaxSteps /\ do_dbs_timer(cpu, src, "works")

SpecCycle == InitCycle /\ [][CycleStep]_vars


(* ---------------- SpecStore: the tunable store's writers --------------- *)
\* the numbers written to each attribute in SpecStore
StoreInputs(attr) ==
  CASE attr = "sampling_rate" -> {0, 50000}
    [] attr = "up_threshold" -> {30, 31, 100, 101}
    [] attr = "down_threshold" -> {10, 11, 70, 101}
    [] attr = "ignore_nice_load" -> {0, 2}
    [] attr = "freq_middle" -> {0}
    [] attr = "freq_step_up" -> {101}
    [] attr = "freq_step_down" -> {101}
    [] attr = "io_is_busy" -> {1, 2}
    [] attr = "freq_max_suspend" -> {0, SetMax(FreqTable) + 1}
    [] attr = "freq_awake" -> {SetMin(FreqTable), SetMax(FreqTable) + 1}
StoreBufs(attr) == {Malformed} \cup {Buf(n) : n \in StoreInputs(attr)}

\* the reading every cpu gives in SpecStore
StoreReading == [c \in CPUS |-> Reading(0, 0, 0, 0)]

StoreStart == GovStart(0, TRUE, TRUE, TRUE, TRUE, StoreReading)

StoreWrite ==
  \E attr \in Tunables :
    \E buf \in StoreBufs(attr) : Store(attr, buf, StoreReading, "works")

NextStore ==
  \/ StoreStart
  \/ StoreWrite

SpecStore == Init /\ [][NextStore]_vars

(* ------------- SpecPower: the suspend override and its tunables -------- *)
\* the numbers written to freq_middle and freq_max_suspend in SpecPower
PowerInputs == {0, DEF_FREQ_MAX_SUSPEND}

PowerStart == GovStart(0, TRUE, TRUE, TRUE, TRUE, StoreReading)

PowerWrite ==
  \E attr \in {"freq_middle", "freq_max_suspend"}, n \in PowerInputs :
    Store(attr, Buf(n), StoreReading, "works")

NextPower ==
  \/ PowerStart
  \/ PowerWrite
  \/ PowerSuspend
  \/ PowerResume

SpecPower == Init /\ [][NextPower]_vars

(* ------------- SpecUnits: units with a policy of their own ------------- *)
InitUnits == InitWith(PerCpuPolicies)

\* the reading every cpu gives in a cycle of SpecUnits: fully busy
UnitsReading == [c \in CPUS |-> Reading(1, 0, 0, 0)]

UnitsStart ==
  \E cpu \in CPUS : FreePools # {} /\ GovStart(cpu, TRUE, TRUE, TRUE, TRUE, StoreReading)

UnitsCycle ==
  \E cpu \in CPUS, ub \in UB :
    cycles < MaxCycles /\ do_dbs_timer(cpu, UnitsReading, ub)

NextUnits ==
  \/ UnitsStart
  \/ Stop
  \/ UnitsCycle
  \/ PowerSuspend
  \/ PowerResume

SpecUnits == InitUnits /\ [][NextUnits]_vars

(* ------ SpecConc: the locks and the delayed work, step by step --------- *)
\* Every handler is cut at its lock operations and at the calls that wait
\* for another thread.  One thread of each kind runs; the unit is the one of
\* the policy that governs the cpu the thread is at.
UnitAt(t) == cpufreq_cpu_get(policy, pc[t].cpu)

At(t, at, cpu, arg) == [pc[t] EXCEPT !.at = at, !.cpu = cpu, !.arg = arg]
Goto(t, at, cpu, arg) == pc' = [pc EXCEPT ![t] = At(t, at, cpu, arg)]
Move(t, at) == pc' = [pc EXCEPT ![t].at = at]
\* the handler of thread t has run to its end
Done(t) == [Idle EXCEPT !.runs = pc[t].runs + 1]
Return(t) == pc' = [pc EXCEPT ![t] = Done(t)]
IsIdle(t) == pc[t].at = "idle"

\* handlers each thread runs in one behaviour of SpecConc
MaxWrites == 1
MaxCalls == 3
MaxEvents == 2

\* mutex_lock(&dbs_info->timer_mutex) by thread t: waits while it is held
mutex_lock(t, c) ==
  /\ timer_mutex[c] = Free
  /\ timer_mutex' = [timer_mutex EXCEPT ![c] = t]
mutex_unlock(c) == timer_mutex' = [timer_mutex EXCEPT ![c] = Free]

\* queue_delayed_work_on(cpu, dbs_wq, &dbs_info->work, delay): nothing if the
\* work is pending already
queue_delayed_work_on(c, delay) ==
  IF work[c].pending THEN work
  ELSE [work EXCEPT ![c] = Queued(dbs_wq, jiffies + delay)]
\* queueing on a null pool crashes; on a destroyed pool it reads freed memory
QueueOops(c, ub) ==
  ~work[c].pending /\ (dbs_wq = 0 \/ (dbs_wq \notin pools /\ ub = "oops"))

\* cancel_delayed_work_sync(&dbs_info->work): waits until the work function
\* is not running, and leaves the work not pending
cancel_delayed_work_sync(c) ==
  /\ ~(pc["kworker"].at # "idle" /\ pc["kworker"].cpu = c)
  /\ work' = [work EXCEPT ![c].pending = FALSE]

(* the worker: do_dbs_timer *)
\* the timer of the work of cpu expires and the worker takes the work, which
\* is no longer pending; delay is computed from sampling_rate and the clock
\* (lines 696-698)
KFire(cpu, ub) ==
  /\ ~oops /\ IsIdle("kworker") /\ work[cpu].pending
  /\ cycles < MaxCycles
  /\ jiffies' = Max(jiffies, work[cpu].expires)
  /\ UNCHANGED elevator_data
  /\ work' = [work EXCEPT ![cpu].pending = FALSE]
  /\ IF work[cpu].wq \notin pools /\ ub = "oops"
     THEN oops' = TRUE /\ UNCHANGED pc
     ELSE /\ Goto("kworker", "lock", cpu,
                  AlignedDelay(jiffies', dbs_tuners_ins.sampling_rate))
          /\ UNCHANGED oops
  /\ UNCHANGED <<dbs_tuners_ins, min_sampling_rate, suspended, dbs_info, policy,
                 dbs_enable, dbs_wq, pools, registered, power_state, last, cycles,
                 before_suspend, timer_mutex, dbs_mutex>>

KLock ==
  /\ ~oops /\ pc["kworker"].at = "lock"
  /\ mutex_lock("kworker", pc["kworker"].cpu)
  /\ Move("kworker", "check")
  /\ UNCHANGED <<jiffies, elevator_data>>
  /\ UNCHANGED <<dbs_tuners_ins, min_sampling_rate, suspended, dbs_info, policy,
                 dbs_enable, dbs_wq, pools, work, registered, power_state, oops,
                 last, cycles, before_suspend, dbs_mutex>>

KCheck(src) ==
  /\ ~oops /\ pc["kworker"].at = "check"
  /\ Commit(dbs_check_cpu(Machine, dbs_tuners_ins, pc["kworker"].cpu, src),
            "do_dbs_timer", pc["kworker"].cpu, 0, src)
  /\ cycles' = cycles + 1
  /\ Move("kworker", "queue")
  /\ UNCHANGED <<jiffies, elevator_data>>
  /\ UNCHANGED <<dbs_tuners_ins, min_sampling_rate, suspended, dbs_enable, dbs_wq,
                 pools, work, registered, power_state, before_suspend,
                 timer_mutex, dbs_mutex>>

KQueue(ub) ==
  /\ ~oops /\ pc["kworker"].at = "queue"
  /\ oops' = QueueOops(pc["kworker"].cpu, ub)
  /\ work' = IF oops' THEN work
             ELSE queue_delayed_work_on(pc["kworker"].cpu, pc["kworker"].arg)
  /\ Move("kworker", "unlock")
  /\ UNCHANGED <<jiffies, elevator_data>>
  /\ UNCHANGED <<dbs_tuners_ins, min_sampling_rate, suspended, dbs_info, policy,
                 dbs_enable, dbs_wq, pools, registered, power_state, last, cycles,
                 before_suspend, timer_mutex, dbs_mutex>>

KUnlock ==
  /\ ~oops /\ pc["kworker"].at = "unlock"
  /\ mutex_unlock(pc["kworker"].cpu)
  /\ Return("kworker")
  /\ UNCHANGED <<jiffies, elevator_data>>
  /\ UNCHANGED <<dbs_tuners_ins, min_sampling_rate, suspended, dbs_info, policy,
                 dbs_enable, dbs_wq, pools, work, registered, power_state, oops,
                 last, cycles, before_suspend, dbs_mutex>>

(* the writer: store_sampling_rate, update_sampling_rate *)
\* where the loop over the online cpus goes after cpu
WriterNext(cpu, arg) ==
  IF cpu + 1 < NCPUS THEN At("sysfs", "loop", cpu + 1, arg) ELSE Done("sysfs")

\* lines 296-297: the period is stored, raised to the minimum
WStart(n) ==
  /\ ~oops /\ IsIdle("sysfs") /\ registered.sysfs
  /\ pc["sysfs"].runs < MaxWrites
  /\ dbs_tuners_ins' = [dbs_tuners_ins EXCEPT !.sampling_rate = SamplingRateClamped(n)]
  /\ Goto("sysfs", "loop", 0, SamplingRateClamped(n))
  /\ UNCHANGED <<jiffies, elevator_data>>
  /\ UNCHANGED <<min_sampling_rate, suspended, dbs_info, policy, dbs_enable, dbs_wq,
                 pools, work, registered, power_state, oops, last, cycles,
                 before_suspend, timer_mutex, dbs_mutex>>

\* line 311
WLock ==
  /\ ~oops /\ pc["sysfs"].at = "loop"
  /\ mutex_lock("sysfs", UnitAt("sysfs"))
  /\ Move("sysfs", "test")
  /\ UNCHANGED <<jiffies, elevator_data>>
  /\ UNCHANGED <<dbs_tuners_ins, min_sampling_rate, suspended, dbs_info, policy,
                 dbs_enable, dbs_wq, pools, work, registered, power_state, oops,
                 last, cycles, before_suspend, dbs_mutex>>

\* lines 313-323 with the mutex kept over cancel_delayed_work_sync when the
\* work is to be queued again
WTestKeepsLock ==
  /\ ~oops /\ pc["sysfs"].at = "test"
  /\ IF work[UnitAt("sysfs")].pending
        /\ time_before(jiffies + usecs_to_jiffies(pc["sysfs"].arg),
                       work[UnitAt("sysfs")].expires)
     THEN Move("sysfs", "cancel") /\ UNCHANGED timer_mutex
     ELSE /\ mutex_unlock(UnitAt("sysfs"))
          /\ pc' = [pc EXCEPT !["sysfs"] = WriterNext(pc["sysfs"].cpu, pc["sysfs"].arg)]
  /\ UNCHANGED <<jiffies, elevator_data>>
  /\ UNCHANGED <<dbs_tuners_ins, min_sampling_rate, suspended, dbs_info, policy,
                 dbs_enable, dbs_wq, pools, work, registered, power_state, oops,
                 last, cycles, before_suspend, dbs_mutex>>

\* lines 313-323
WTest ==
  /\ ~oops /\ pc["sysfs"].at = "test"
  /\ mutex_unlock(UnitAt("sysfs"))
  /\ IF work[UnitAt("sysfs")].pending
        /\ time_before(jiffies + usecs_to_jiffies(pc["sysfs"].arg),
                       work[UnitAt("sysfs")].expires)
     THEN Move("sysfs", "cancel")
     ELSE pc' = [pc EXCEPT !["sysfs"] = WriterNext(pc["sysfs"].cpu, pc["sysfs"].arg)]
  /\ UNCHANGED <<jiffies, elevator_data>>
  /\ UNCHANGED <<dbs_tuners_ins, min_sampling_rate, suspended, dbs_info, policy,
                 dbs_enable, dbs_wq, pools, work, registered, power_state, oops,
                 last, cycles, before_suspend, dbs_mutex>>

\* line 324
WCancel ==
  /\ ~oops /\ pc["sysfs"].at = "cancel"
  /\ cancel_delayed_work_sync(UnitAt("sysfs"))
  /\ Move("sysfs", "relock")
  /\ UNCHANGED <<jiffies, elevator_data>>
  /\ UNCHANGED <<dbs_tuners_ins, min_sampling_rate, suspended, dbs_info, policy,
                 dbs_enable, dbs_wq, pools, registered, power_state, oops, last,
                 cycles, before_suspend, timer_mutex, dbs_mutex>>

\* line 325
WRelock ==
  /\ ~oops /\ pc["sysfs"].at = "relock"
  /\ mutex_lock("sysfs", UnitAt("sysfs"))
  /\ Move("sysfs", "queue")
  /\ UNCHANGED <<jiffies, elevator_data>>
  /\ UNCHANGED <<dbs_tuners_ins, min_sampling_rate, suspended, dbs_info, policy,
                 dbs_enable, dbs_wq, pools, work, registered, power_state, oops,
                 last, cycles, before_suspend, dbs_mutex>>

\* lines 327-328
WQueue(ub) ==
  /\ ~oops /\ pc["sysfs"].at = "queue"
  /\ oops' = QueueOops(UnitAt("sysfs"), ub)
  /\ work' = IF oops' THEN work
             ELSE queue_delayed_work_on(UnitAt("sysfs"), usecs_to_jiffies(pc["sysfs"].arg))
  /\ Move("sysfs", "unlock")
  /\ UNCHANGED <<jiffies, elevator_data>>
  /\ UNCHANGED <<dbs_tuners_ins, min_sampling_rate, suspended, dbs_info, policy,
                 dbs_enable, dbs_wq, pools, registered, power_state, last, cycles,
                 before_suspend, timer_mutex, dbs_mutex>>

\* line 331
WUnlock ==
  /\ ~oops /\ pc["sysfs"].at = "unlock"
  /\ mutex_unlock(UnitAt("sysfs"))
  /\ pc' = [pc EXCEPT !["sysfs"] = WriterNext(pc["sysfs"].cpu, pc["sysfs"].arg)]
  /\ UNCHANGED <<jiffies, elevator_data>>
  /\ UNCHANGED <<dbs_tuners_ins, min_sampling_rate, suspended, dbs_info, policy,
                 dbs_enable, dbs_wq, pools, work, registered, power_state, oops,
                 last, cycles, before_suspend, dbs_mutex>>

(* the cpufreq core: CPUFREQ_GOV_START, CPUFREQ_GOV_STOP, CPUFREQ_GOV_LIMITS *)
\* CPUFREQ_GOV_START as one step: its body runs under dbs_mutex
ConcStart ==
  /\ IsIdle("cpufreq") /\ dbs_mutex = Free /\ FreePools # {}
  /\ pc["cpufreq"].runs < MaxCalls
  /\ GovStartCalled(0, TRUE, TRUE, TRUE, TRUE, StoreReading)
  /\ Return("cpufreq")

\* dbs_timer_exit, line 723
GStop(cpu) ==
  /\ ~oops /\ IsIdle("cpufreq") /\ dbs_info[cpu].enable
  /\ pc["cpufreq"].runs < MaxCalls
  /\ dbs_info' = [dbs_info EXCEPT ![cpu].enable = FALSE]
  /\ Goto("cpufreq", "stop_cancel", cpu, 0)
  /\ UNCHANGED <<jiffies, elevator_data>>
  /\ UNCHANGED <<dbs_tuners_ins, min_sampling_rate, suspended, policy, dbs_enable,
                 dbs_wq, pools, work, registered, power_state, oops, last, cycles,
                 before_suspend, timer_mutex, dbs_mutex>>

\* dbs_timer_exit, line 724
GStopCancel ==
  /\ ~oops /\ pc["cpufreq"].at = "stop_cancel"
  /\ cancel_delayed_work_sync(pc["cpufreq"].cpu)
  /\ Move("cpufreq", "stop_lock")
  /\ UNCHANGED <<jiffies, elevator_data>>
  /\ UNCHANGED <<dbs_tuners_ins, min_sampling_rate, suspended, dbs_info, policy,
                 dbs_enable, dbs_wq, pools, registered, power_state, oops, last,
                 cycles, before_suspend, timer_mutex, dbs_mutex>>

\* line 820
GStopLock ==
  /\ ~oops /\ pc["cpufreq"].at = "stop_lock"
  /\ dbs_mutex = Free
  /\ dbs_mutex' = "cpufreq"
  /\ Move("cpufreq", "stop_body")
  /\ UNCHANGED <<jiffies, elevator_data>>
  /\ UNCHANGED <<dbs_tuners_ins, min_sampling_rate, suspended, dbs_info, policy,
                 dbs_enable, dbs_wq, pools, work, registered, power_state, oops,
                 last, cycles, before_suspend, timer_mutex>>

\* lines 821-833
GStopBody(ub) ==
  /\ ~oops /\ pc["cpufreq"].at = "stop_body"
  /\ dbs_enable' = U32(dbs_enable - 1)
  /\ IF dbs_wq = 0 \/ (dbs_wq \notin pools /\ ub = "oops")
     THEN /\ oops' = TRUE
          /\ registered' = [registered EXCEPT !.power = FALSE]
          /\ UNCHANGED pools
     ELSE /\ oops' = FALSE
          /\ pools' = pools \ {dbs_wq}
          /\ registered' = [registered EXCEPT !.power = FALSE,
                                              !.notifier = @ /\ dbs_enable' # 0]
  /\ Move("cpufreq", "stop_unlock")
  /\ UNCHANGED <<jiffies, elevator_data>>
  /\ UNCHANGED <<dbs_tuners_ins, min_sampling_rate, suspended, dbs_info, policy,
                 dbs_wq, work, power_state, last, cycles, before_suspend,
                 timer_mutex, dbs_mutex>>

\* lines 835-840: CPUFREQ_GOV_STOP returns; sysfs_remove_group waits for a
\* store that is in flight
GStopUnlock ==
  /\ ~oops /\ pc["cpufreq"].at = "stop_unlock"
  /\ (dbs_enable = 0) => IsIdle("sysfs")
  /\ dbs_mutex' = Free
  /\ registered' = [registered EXCEPT !.sysfs = @ /\ dbs_enable # 0]
  /\ last' = Last("GOV_STOP", pc["cpufreq"].cpu, 0, <<>>)
  /\ Return("cpufreq")
  /\ UNCHANGED <<jiffies, elevator_data>>
  /\ UNCHANGED <<dbs_tuners_ins, min_sampling_rate, suspended, dbs_info, policy,
                 dbs_enable, dbs_wq, pools, work, power_state, oops, cycles,
                 before_suspend, timer_mutex>>

\* the core sets the range of policy p to [min, max] and calls CPUFREQ_GOV_LIMITS
GLimits(p, min, max) ==
  /\ ~oops /\ IsIdle("cpufreq") /\ dbs_info[p].enable
  /\ pc["cpufreq"].runs < MaxCalls
  /\ <<min, max>> # <<policy[p].min, policy[p].max>>
  /\ policy' = [policy EXCEPT ![p].min = min, ![p].max = max]
  /\ Goto("cpufreq", "limits_lock", p, 0)
  /\ UNCHANGED <<jiffies, elevator_data>>
  /\ UNCHANGED <<dbs_tuners_ins, min_sampling_rate, suspended, dbs_info, dbs_enable,
                 dbs_wq, pools, work, registered, power_state, oops, last, cycles,
                 before_suspend, timer_mutex, dbs_mutex>>

(* CPUFREQ_GOV_LIMITS, called by the core or through cpufreq_update_policy *)
\* where the loop of suspend_resume goes after cpu: arg is 1 for a suspend;
\* after the loop a resume goes on to the loop of clarity_late_resume
PowerNext(cpu, arg) ==
  IF cpu + 1 < NCPUS THEN At("power", "ceiling", cpu + 1, arg)
  ELSE IF arg = 1 THEN Done("power") ELSE At("power", "awake", 0, arg)
\* where thread t goes when CPUFREQ_GOV_LIMITS returns
AfterLimits(t) ==
  IF t = "power" THEN PowerNext(pc[t].cpu, pc[t].arg) ELSE Done(t)

\* line 843
LimitsLock(t) ==
  /\ ~oops /\ pc[t].at = "limits_lock"
  /\ mutex_lock(t, UnitAt(t))
  /\ Move(t, "limits")
  /\ UNCHANGED <<jiffies, elevator_data>>
  /\ UNCHANGED <<dbs_tuners_ins, min_sampling_rate, suspended, dbs_info, policy,
                 dbs_enable, dbs_wq, pools, work, registered, power_state, oops,
                 last, cycles, before_suspend, dbs_mutex>>

\* lines 844-849
LimitsBody(t) ==
  /\ ~oops /\ pc[t].at = "limits"
  /\ Commit(governor_limits(Machine, UnitAt(t)), "GOV_LIMITS", UnitAt(t), 0, NoArg)
  /\ Move(t, "limits_unlock")
  /\ UNCHANGED <<jiffies, elevator_data>>
  /\ UNCHANGED <<dbs_tuners_ins, min_sampling_rate, suspended, dbs_enable, dbs_wq,
                 pools, work, registered, power_state, cycles, before_suspend,
                 timer_mutex, dbs_mutex>>

\* line 850
LimitsUnlock(t) ==
  /\ ~oops /\ pc[t].at = "limits_unlock"
  /\ mutex_unlock(UnitAt(t))
  /\ pc' = [pc EXCEPT ![t] = AfterLimits(t)]
  /\ UNCHANGED <<jiffies, elevator_data>>
  /\ UNCHANGED <<dbs_tuners_ins, min_sampling_rate, suspended, dbs_info, policy,
                 dbs_enable, dbs_wq, pools, work, registered, power_state, oops,
                 last, cycles, before_suspend, dbs_mutex>>

(* the power-state source: clarity_power_suspend, clarity_late_resume *)
\* lines 217-222 and 231-236: the source changes state and calls the handler
\* registered, which sets suspended and, unless the override is off, enters
\* the loop of suspend_resume
PBegin(suspend) ==
  /\ ~oops /\ IsIdle("power")
  /\ pc["power"].runs < MaxEvents
  /\ power_state = (IF suspend THEN "active" ELSE "suspended")
  /\ power_state' = (IF suspend THEN "suspended" ELSE "active")
  /\ IF registered.power
     THEN /\ suspended' = suspend
          /\ last' = Last(IF suspend THEN "suspend" ELSE "resume", NULL, 0, <<>>)
          /\ IF dbs_tuners_ins.freq_max_suspend = 0 THEN Return("power")
             ELSE Goto("power", "ceiling", 0, IF suspend THEN 1 ELSE 0)
     ELSE Return("power") /\ UNCHANGED <<suspended, last>>
  /\ UNCHANGED <<jiffies, elevator_data>>
  /\ UNCHANGED <<dbs_tuners_ins, min_sampling_rate, dbs_info, policy, dbs_enable,
                 dbs_wq, pools, work, registered, oops, cycles, before_suspend,
                 timer_mutex, dbs_mutex>>

\* lines 195-207 for the cpu the loop is at
PCeiling ==
  /\ ~oops /\ pc["power"].at = "ceiling"
  /\ LET cpu == pc["power"].cpu
         p == cpufreq_cpu_get(policy, cpu)
         cpu_info == dbs_info[ResumeInfo(cpu)]
     IN  IF pc["power"].arg = 1
         THEN /\ dbs_info' = [dbs_info EXCEPT ![cpu].cpu_maxcur_freq = policy[p].max]
              /\ policy' = [policy EXCEPT
                              ![p].max = dbs_tuners_ins.freq_max_suspend,
                              ![p].cpuinfo_max_freq = dbs_tuners_ins.freq_max_suspend]
         ELSE /\ policy' = [policy EXCEPT
                              ![p].cpuinfo_max_freq = cpu_info.cpu_max_freq,
                              ![p].max = cpu_info.cpu_maxcur_freq]
              /\ UNCHANGED dbs_info
  /\ Move("power", "update")
  /\ UNCHANGED <<jiffies, elevator_data>>
  /\ UNCHANGED <<dbs_tuners_ins, min_sampling_rate, suspended, dbs_enable, dbs_wq,
                 pools, work, registered, power_state, oops, last, cycles,
                 before_suspend, timer_mutex, dbs_mutex>>

\* line 211, cpufreq_update_policy(cpu): a unit under this governor gets
\* CPUFREQ_GOV_LIMITS, the rate of any other is brought into its range
PUpdate ==
  /\ ~oops /\ pc["power"].at = "update"
  /\ IF dbs_info[UnitAt("power")].enable
     THEN Move("power", "limits_lock") /\ UNCHANGED <<dbs_info, policy, oops, last>>
     ELSE /\ Commit(cpufreq_update_policy(Machine, pc["power"].cpu),
                    last.op, last.cpu, last.ret, last.arg)
          /\ pc' = [pc EXCEPT !["power"] = PowerNext(pc["power"].cpu, pc["power"].arg)]
  /\ UNCHANGED <<jiffies, elevator_data>>
  /\ UNCHANGED <<dbs_tuners_ins, min_sampling_rate, suspended, dbs_enable, dbs_wq,
                 pools, work, registered, power_state, cycles, before_suspend,
                 timer_mutex, dbs_mutex>>

\* lines 237-244 for the cpu the loop is at
PAwake ==
  /\ ~oops /\ pc["power"].at = "awake"
  /\ Commit(cpufreq_driver_target(Machine, dbs_info[pc["power"].cpu].cur_policy,
                                  dbs_tuners_ins.freq_awake, CPUFREQ_RELATION_L),
            "resume", pc["power"].cpu, 0, NoArg)
  /\ pc' = [pc EXCEPT !["power"] =
              IF pc["power"].cpu + 1 < NCPUS
              THEN At("power", "awake", pc["power"].cpu + 1, 0) ELSE Done("power")]
  /\ UNCHANGED <<jiffies, elevator_data>>
  /\ UNCHANGED <<dbs_tuners_ins, min_sampling_rate, suspended, dbs_enable, dbs_wq,
                 pools, work, registered, power_state, cycles, before_suspend,
                 timer_mutex, dbs_mutex>>

\* the period written in SpecConc
ConcRates == {DEF_SAMPLING_RATE \div 2}

NextConc ==
  \/ ConcStart
  \/ \E cpu \in CPUS, ub \in UB : KFire(cpu, ub)
  \/ KLock
  \/ KCheck(UnitsReading)
  \/ \E ub \in UB : KQueue(ub)
  \/ KUnlock
  \/ \E n \in ConcRates : WStart(n)
  \/ WLock
  \/ WTest
  \/ WCancel
  \/ WRelock
  \/ \E ub \in UB : WQueue(ub)
  \/ WUnlock
  \/ \E cpu \in CPUS : GStop(cpu)
  \/ GStopCancel
  \/ GStopLock
  \/ \E ub \in UB : GStopBody(ub)
  \/ GStopUnlock
  \/ \E p \in CPUS, r \in LimitRanges : GLimits(p, r[1], r[2])
  \/ \E t \in {"cpufreq", "power"} : LimitsLock(t)
  \/ \E t \in {"cpufreq", "power"} : LimitsBody(t)
  \/ \E t \in {"cpufreq", "power"} : LimitsUnlock(t)
  \/ \E suspend \in BOOLEAN : PBegin(suspend)
  \/ PCeiling
  \/ PUpdate
  \/ PAwake

SpecConc == Init /\ [][NextConc]_vars

(* ------------- SpecTimer: the period and the delayed work's timer ------- *)
\* the clock of SpecTimer stops at MaxJiffies
MaxJiffies == 6
\* the periods written in SpecTimer: below the minimum, shorter than the
\* default and longer than the default
TimerRates == {0, 30000, 50000}

\* one jiffy passes
Tick ==
  /\ jiffies < MaxJiffies
  /\ jiffies' = jiffies + 1
  /\ UNCHANGED <<dbs_tuners_ins, min_sampling_rate, suspended, dbs_info, policy,
                 dbs_enable, dbs_wq, pools, work, registered, power_state, oops,
                 last, cycles, before_suspend, pc, timer_mutex, dbs_mutex,
                 elevator_data>>

TimerStart == GovStart(0, TRUE, TRUE, TRUE, TRUE, StoreReading)

TimerWrite ==
  \E n \in TimerRates : Store("sampling_rate", Buf(n), StoreReading, "works")

TimerFire ==
  \E cpu \in CPUS :
    cycles < MaxCycles /\ do_dbs_timer(cpu, UnitsReading, "works")

NextTimer ==
  \/ TimerStart
  \/ Tick
  \/ TimerWrite
  \/ TimerFire

SpecTimer == Init /\ [][NextTimer]_vars

(* ------------- SpecStart: activations that fail and succeed ------------ *)
\* cpu 1's policy reports a current rate or none yet
InitStart ==
  \E cur \in {0, InitCur} : InitWith([PerCpuPolicies EXCEPT ![1].cur = cur])

\* an activation of a cpu that is online or not, where the pool and the
\* sysfs group can or cannot be created
StartAny ==
  \E cpu \in CPUS, online \in BOOLEAN, alloc_ok \in BOOLEAN, sysfs_ok \in BOOLEAN :
    GovStart(cpu, online, alloc_ok, sysfs_ok, TRUE, StoreReading)

StartCycle ==
  \E cpu \in CPUS, ub \in UB :
    cycles < MaxCycles /\ do_dbs_timer(cpu, UnitsReading, ub)

NextStart ==
  \/ StartAny
  \/ Stop
  \/ StartCycle

SpecStart == InitStart /\ [][NextStart]_vars

(* ------------- SpecPeriod: the period and its lower bound -------------- *)
\* the transition latencies, in ns, a rate driver reports in SpecPeriod
Latencies == {InitLatency, 500 * 1000}
\* the periods written in SpecPeriod
PeriodRates == {0, 30000, 60000}

InitPeriod ==
  \E lat \in Latencies :
    InitWith([SharedPolicy EXCEPT ![0].transition_latency = lat])

PeriodStart == GovStart(0, TRUE, TRUE, TRUE, TRUE, StoreReading)

PeriodWrite ==
  \E n \in PeriodRates : Store("sampling_rate", Buf(n), StoreReading, "works")

PeriodFire ==
  \E cpu \in CPUS :
    cycles < MaxCycles /\ do_dbs_timer(cpu, UnitsReading, "works")

NextPeriod ==
  \/ PeriodStart
  \/ Stop
  \/ Tick
  \/ PeriodWrite
  \/ PeriodFire

SpecPeriod == InitPeriod /\ [][NextPeriod]_vars

(* ------------- SpecSample: a group whose cpus differ in load ----------- *)
\* the readings of SpecSample: wall, idle and nice time
SampleReadings == {Reading(w, i, 0, n) : w \in Ticks, i \in Ticks, n \in 0 .. 1}

SampleStart == GovStart(0, TRUE, TRUE, TRUE, TRUE, StoreReading)

\* a cycle of the group in which every cpu has a reading of its own
SampleCycle ==
  \E src \in [CPUS -> SampleReadings] :
    cycles < MaxCycles /\ do_dbs_timer(0, src, "works")

SampleWrite ==
  \E n \in 0 .. 1 : Store("ignore_nice_load", Buf(n), StoreReading, "works")

NextSample ==
  \/ SampleStart
  \/ SampleCycle
  \/ SampleWrite

SpecSample == Init /\ [][NextSample]_vars

(* =============================== claims ================================ *)
\* the range of the policy that governs an active unit
RangeOf(c) == policy[dbs_info[c].cur_policy]
\* the units that are active and have a policy
ActiveUnits == {c \in CPUS : dbs_info[c].enable /\ dbs_info[c].cur_policy # NULL}

\* C2: in every reachable state of an active unit, whatever cycles, suspends,
\* resumes, range changes and rate-change notifications came before,
\* requested_freq lies within the current range [min, max] of its policy.
C2_RequestedInCurrentRange ==
  \A c \in ActiveUnits :
    RangeOf(c).min <= dbs_info[c].requested_freq
    /\ dbs_info[c].requested_freq <= RangeOf(c).max

\* C1: after each execution of the decision cycle on a unit activated with
\* requested_freq equal to its rate, under a fixed range and any accepted
\* configuration, min <= requested_freq <= max.
C1_RateBoundsAfterCycle ==
  last.op = "do_dbs_timer" =>
    \A c \in ActiveUnits :
      RangeOf(c).min <= dbs_info[c].requested_freq
      /\ dbs_info[c].requested_freq <= RangeOf(c).max

\* the deltas the sampling loop computes for a unit from a reading
WallDelta(this, r) == (jiffies_to_usecs(r.wall) - this.prev_cpu_wall) % TIME_MOD
IdleDelta(this, r) == (jiffies_to_usecs(r.idle) - this.prev_cpu_idle) % TIME_MOD
\* a cycle of the unit with the readings src in which the sample of every
\* cpu of the group is anomalous
AnomalousCycle(src) ==
  /\ cycles' = cycles + 1
  /\ \A j \in CPUS :
       WallDelta(dbs_info[j], src[j]) = 0
       \/ IdleDelta(dbs_info[j], src[j]) > WallDelta(dbs_info[j], src[j])

\* C10: a cycle whose sample is anomalous (wall_delta = 0 or idle_delta >
\* wall_delta) leaves requested_freq as it was, sends no rate request and
\* re-arms.
C10_AnomalyHoldsDecision ==
  [][AnomalousCycle(last'.arg) =>
       /\ dbs_info'[last'.cpu].requested_freq = dbs_info[last'.cpu].requested_freq
       /\ last'.reqs = <<>>
       /\ work'[last'.cpu].pending]_vars

\* the thresholds up and down are ordered and in their ranges
ThresholdsOrdered(up, down) ==
  down < up /\ 11 <= down /\ down <= 100 /\ 0 <= up /\ up <= 100
\* the thresholds the store would hold if the write w to attr were applied
UpAfter(attr, w) == IF attr = "up_threshold" THEN w.input ELSE dbs_tuners_ins.up_threshold
DownAfter(attr, w) == IF attr = "down_threshold" THEN w.input ELSE dbs_tuners_ins.down_threshold
\* a well-formed write to a threshold that would break the ordering or a range
BreaksThresholds(attr, w) ==
  /\ attr \in {"up_threshold", "down_threshold"}
  /\ w.ret = 1
  /\ ~ThresholdsOrdered(UpAfter(attr, w), DownAfter(attr, w))

\* C3: after any sequence of writes from the defaults, down_threshold <
\* up_threshold, 11 <= down_threshold <= 100 and 0 <= up_threshold <= 100; a
\* threshold write that would break this is rejected and leaves every tunable
\* as it was.
C3_ThresholdOrdering ==
  [][/\ ThresholdsOrdered(dbs_tuners_ins'.up_threshold, dbs_tuners_ins'.down_threshold)
     /\ BreaksThresholds(last'.op, last'.arg) =>
          last'.ret = -EINVAL /\ dbs_tuners_ins' = dbs_tuners_ins]_vars

\* a write to up_threshold of a value not above down_threshold has been rejected
C3_Witness ==
  /\ last.op = "up_threshold"
  /\ last.arg.ret = 1
  /\ last.arg.input <= dbs_tuners_ins.down_threshold
  /\ last.arg.input <= 100
  /\ last.ret = -EINVAL

\* a well-formed write w to attr whose value is outside the range of the field
OutOfRange(attr, w) ==
  /\ w.ret = 1
  /\ CASE attr = "sampling_rate" -> w.input < min_sampling_rate
        [] attr = "up_threshold" -> w.input > 100
        [] attr = "down_threshold" -> w.input < 11 \/ w.input > 100
        [] attr = "ignore_nice_load" -> w.input > 1
        [] attr = "freq_step_up" -> w.input > 100
        [] attr = "freq_step_down" -> w.input > 100
        [] attr = "io_is_busy" -> w.input > 1
        [] attr = "freq_max_suspend" -> w.input > policy[0].max
        [] attr = "freq_awake" -> w.input > policy[0].max
        [] OTHER -> FALSE
\* a write that is out of range, breaks the threshold ordering or is malformed
InvalidWrite(attr, w) ==
  attr \in Tunables
  /\ (w.ret # 1 \/ OutOfRange(attr, w) \/ BreaksThresholds(attr, w))
\* the attributes whose writers bring an out-of-range value to the nearest
\* bound of the range and accept it, and the field and the bound of each
Clamping == {"sampling_rate", "ignore_nice_load", "freq_step_up", "freq_step_down"}
FieldOf(attr, tun) ==
  CASE attr = "sampling_rate" -> tun.sampling_rate
    [] attr = "ignore_nice_load" -> tun.ignore_nice
    [] attr = "freq_step_up" -> tun.freq_step_up
    [] attr = "freq_step_down" -> tun.freq_step_down
BoundOf(attr) ==
  CASE attr = "sampling_rate" -> min_sampling_rate
    [] attr = "ignore_nice_load" -> 1
    [] attr = "freq_step_up" -> 100
    [] attr = "freq_step_down" -> 100

\* C9 as the spec states it: every invalid write (out of range, breaking the
\* threshold ordering, or malformed) is rejected, and a rejected write leaves
\* every field of the store as it was.
C9_InvalidWriteRejected ==
  [][/\ last'.op \in Tunables => last'.ret \in {COUNT, -EINVAL}
     /\ InvalidWrite(last'.op, last'.arg) => last'.ret = -EINVAL
     /\ (last'.op \in Tunables /\ last'.ret = -EINVAL) =>
          dbs_tuners_ins' = dbs_tuners_ins]_vars

\* C9 as the code has it: every write ends in accept or reject; a malformed
\* write, a write breaking the threshold ordering and an out-of-range write
\* to up_threshold, down_threshold, io_is_busy, freq_max_suspend or
\* freq_awake is rejected; an out-of-range write to sampling_rate,
\* ignore_nice_load, freq_step_up or freq_step_down is accepted with the
\* value brought to the bound; a rejected write leaves every field as it was.
C9_InvalidWriteSettled ==
  [][/\ last'.op \in Tunables => last'.ret \in {COUNT, -EINVAL}
     /\ (InvalidWrite(last'.op, last'.arg) /\ last'.op \notin Clamping) =>
          last'.ret = -EINVAL
     /\ (last'.op \in Clamping /\ last'.arg.ret # 1) => last'.ret = -EINVAL
     /\ (last'.op \in Clamping /\ OutOfRange(last'.op, last'.arg)) =>
          /\ last'.ret = COUNT
          /\ FieldOf(last'.op, dbs_tuners_ins') = BoundOf(last'.op)
     /\ (last'.op \in Tunables /\ last'.ret = -EINVAL) =>
          dbs_tuners_ins' = dbs_tuners_ins]_vars

\* an out-of-range write to freq_awake has been rejected while the store
\* holds a step size that an out-of-range write was clamped to
C9_Witness ==
  /\ last.op = "freq_awake"
  /\ OutOfRange(last.op, last.arg)
  /\ last.ret = -EINVAL
  /\ dbs_tuners_ins.freq_step_up = 100

\* the ceiling and the highest rate of every policy in the next state are
\* those that before_suspend holds
RestoredAll ==
  \A p \in PolicyCpus :
    /\ policy'[p].max = before_suspend.of[p].max
    /\ policy'[p].cpuinfo_max_freq = before_suspend.of[p].cpuinfo_max_freq

\* C4: a suspend immediately followed by a resume leaves the ceiling and the
\* reported maximum of every unit equal to that unit's own values before the
\* suspend.
C4_RoundTripPerUnit ==
  [][(last.op = "suspend" /\ before_suspend.taken /\ last'.op = "resume") =>
       RestoredAll]_vars

\* C5: whenever a suspend has lowered the ceilings, the next resume, whatever
\* tunable writes came between, restores every ceiling to its value before
\* that suspend.
C5_CeilingNeverStale ==
  [][(before_suspend.taken /\ registered.power
      /\ power_state = "suspended" /\ power_state' = "active") =>
       \A p \in PolicyCpus : policy'[p].max = before_suspend.of[p].max]_vars

\* C8: one worker pool exists exactly while the activation count is above
\* zero: dbs_wq points to it, and the work of every active unit is queued
\* on it.
C8_PoolLifetime ==
  /\ pools = (IF dbs_enable > 0 THEN {dbs_wq} ELSE {})
  /\ \A c \in CPUS : (dbs_info[c].enable /\ work[c].pending) => work[c].wq \in pools


\* the units whose requested_freq, rate or ceiling thread t is at a statement
\* reading or writing: dbs_check_cpu and the re-arming of the worker, the
\* test and the re-queueing of update_sampling_rate, the body of
\* CPUFREQ_GOV_LIMITS, the ceiling override of suspend_resume and the wake
\* rate of clarity_late_resume
Touched(t) ==
  IF t = "kworker" /\ pc[t].at \in {"check", "queue"} THEN {pc[t].cpu}
  ELSE IF t = "sysfs" /\ pc[t].at \in {"test", "queue"} THEN {UnitAt(t)}
  ELSE IF t \in {"cpufreq", "power"} /\ pc[t].at = "limits" THEN {UnitAt(t)}
  ELSE IF t = "power" /\ pc[t].at = "ceiling" THEN {UnitAt(t)}
  ELSE IF t = "power" /\ pc[t].at = "awake"
       THEN {dbs_info[pc[t].cpu].cur_policy} \cap CPUS
  ELSE {}

\* C6: for one unit, the decision cycle, the rescheduling after a period
\* change, the range-limit handler and the suspend/resume override are never
\* in their state-touching sections at the same time, and each holds the
\* unit's timer_mutex while it is in its own.
C6_MutualExclusion ==
  /\ \A t1, t2 \in Threads : t1 # t2 => Touched(t1) \cap Touched(t2) = {}
  /\ \A t \in Threads : \A c \in Touched(t) : timer_mutex[c] = t

\* CPUFREQ_GOV_STOP is between its entry and its return for unit c
Stopping(c) ==
  pc["cpufreq"].at \in {"stop_cancel", "stop_lock", "stop_body", "stop_unlock"}
  /\ pc["cpufreq"].cpu = c
\* the work function of unit c is running
Running(c) == ~IsIdle("kworker") /\ pc["kworker"].cpu = c

\* C7: once CPUFREQ_GOV_STOP has returned for a unit, and until the unit is
\* activated again, no cycle of the unit is running and none is pending,
\* whatever the interleaving with a cycle that re-arms itself and with a
\* period write that cancels and re-queues the work.
C7_StoppedMeansQuiet ==
  \A c \in CPUS :
    (~dbs_info[c].enable /\ ~Stopping(c)) => (~work[c].pending /\ ~Running(c))

\* a control cycle has just run: the unit it ran for, the policy of the unit
\* before it, and the highest load its sampling loop computed from the
\* readings src (0 when every sample was skipped)
CycleRan == cycles' = cycles + 1 /\ last'.op = "do_dbs_timer"
CyclePolicy == policy[dbs_info[last'.cpu].cur_policy]
MaxLoad(src) ==
  SampleFrom(dbs_tuners_ins, dbs_info, CyclePolicy.cpus, src, 0, 0).max_load
\* some cpu of the unit gave a sample that was not skipped
ValidSample(src) ==
  \E j \in CyclePolicy.cpus : SampleCpu(dbs_tuners_ins, dbs_info[j], src[j]).load # -1
\* the one request a cycle sends for its policy
OneRequest(target, relation) ==
  <<[policy |-> dbs_info[last'.cpu].cur_policy, target |-> target, relation |-> relation]>>

\* a cycle in the decrease zone with a step that is not zero
DecreaseCycle(src) ==
  /\ CycleRan /\ ValidSample(src)
  /\ MaxLoad(src) < dbs_tuners_ins.down_threshold
  /\ dbs_tuners_ins.freq_step_down > 0
\* freq_step_down percent of the reported maximum, and the rate the decrease
\* zone is specified to settle on, computed in the integers
DecreaseTarget == (dbs_tuners_ins.freq_step_down * CyclePolicy.cpuinfo_max_freq) \div 100
DecreaseResult == Max(dbs_info[last'.cpu].requested_freq - DecreaseTarget, CyclePolicy.min)

\* C11: a cycle with load below down_threshold and freq_step_down > 0 sets
\* requested_freq to max(requested_freq - target, min) with target =
\* freq_step_down percent of the reported maximum, without wrap-around even
\* when target exceeds requested_freq, and then sends one request with
\* relation at_most for it unless the current rate already equals min.
C11_DecreaseZoneResult ==
  [][DecreaseCycle(last'.arg) =>
       /\ dbs_info'[last'.cpu].requested_freq = DecreaseResult
       /\ last'.reqs = IF CyclePolicy.cur = CyclePolicy.min THEN <<>>
                       ELSE OneRequest(DecreaseResult, CPUFREQ_RELATION_H)]_vars

\* a cycle in the increase zone with a step that is not zero
IncreaseCycle(src) ==
  /\ CycleRan
  /\ MaxLoad(src) > dbs_tuners_ins.up_threshold
  /\ dbs_tuners_ins.freq_step_up > 0
\* freq_step_up percent of the reported maximum, at least floor
StepUp(floor) ==
  Max((dbs_tuners_ins.freq_step_up * CyclePolicy.cpuinfo_max_freq) \div 100, floor)
\* what the increase zone is specified to do when a zero step counts as floor
IncreaseZoneResult(floor) ==
  LET req == dbs_info[last'.cpu].requested_freq
      new == Min(req + StepUp(floor), CyclePolicy.max)
  IN  IF req = CyclePolicy.max
      THEN dbs_info'[last'.cpu].requested_freq = req /\ last'.reqs = <<>>
      ELSE /\ dbs_info'[last'.cpu].requested_freq = new
           /\ last'.reqs = OneRequest(new, CPUFREQ_RELATION_L)

\* C12: a cycle with load above up_threshold, freq_step_up > 0 and
\* requested_freq # max sets requested_freq to min(requested_freq +
\* max(freq_step_up percent of the reported maximum, 1), max) and sends exactly
\* one request with that target and relation at_least; with requested_freq =
\* max it sends none and leaves requested_freq as it was.
C12_IncreaseZoneResult ==
  [][IncreaseCycle(last'.arg) => IncreaseZoneResult(1)]_vars

\* a cycle in the settle zone
SettleCycle(src) ==
  /\ CycleRan
  /\ dbs_tuners_ins.down_threshold <= MaxLoad(src)
  /\ MaxLoad(src) <= dbs_tuners_ins.up_threshold
\* freq_middle brought into the range of the cycle's policy
ClampedMiddle ==
  Min(Max(dbs_tuners_ins.freq_middle, CyclePolicy.min), CyclePolicy.max)

\* C13: a cycle with down_threshold <= load <= up_threshold requests nothing
\* and leaves requested_freq as it was if the current rate equals
\* freq_middle; otherwise it sets requested_freq to freq_middle clamped into
\* [min, max] and sends exactly one request with that target and relation
\* at_least.
C13_SettleZoneResult ==
  [][SettleCycle(last'.arg) =>
       IF CyclePolicy.cur = dbs_tuners_ins.freq_middle
       THEN /\ dbs_info'[last'.cpu].requested_freq = dbs_info[last'.cpu].requested_freq
            /\ last'.reqs = <<>>
       ELSE /\ dbs_info'[last'.cpu].requested_freq = ClampedMiddle
            /\ last'.reqs = OneRequest(ClampedMiddle, CPUFREQ_RELATION_L)]_vars

\* a cycle has requested the floor of the range at_least, for a freq_middle
\* below the range
C13_Witness ==
  /\ last.op = "do_dbs_timer"
  /\ dbs_tuners_ins.freq_middle < policy[0].min
  /\ last.reqs = <<[policy |-> 0, target |-> policy[0].min,
                    relation |-> CPUFREQ_RELATION_L]>>
  /\ dbs_info[0].requested_freq = policy[0].min

\* C14: with a fixed range and fixed tunables, over consecutive cycles that
\* all sample a load above up_threshold the values of requested_freq never
\* decrease, each cycle below max gains a full step or reaches max (so max
\* is reached within ceil((max - initial requested_freq) / target) cycles),
\* and at max requested_freq stays.
C14_MonotoneResponse ==
  [][IncreaseCycle(last'.arg) =>
       LET req == dbs_info[last'.cpu].requested_freq
           new == dbs_info'[last'.cpu].requested_freq
       IN  /\ new >= req
           /\ new >= Min(req + StepUp(1), CyclePolicy.max)
           /\ new <= CyclePolicy.max
           /\ req = CyclePolicy.max => new = CyclePolicy.max]_vars

\* a cycle leaves the decision state of its unit and the rate of its policy
\* as they were and sends no request
CycleHolds ==
  /\ dbs_info'[last'.cpu].requested_freq = dbs_info[last'.cpu].requested_freq
  /\ dbs_info'[last'.cpu].down_skip = dbs_info[last'.cpu].down_skip
  /\ policy' = policy
  /\ last'.reqs = <<>>

\* C15: with freq_step_up = 0 a cycle whose load is above up_threshold leaves
\* requested_freq and down_skip unchanged and sends no request; with
\* freq_step_down = 0 a cycle whose load is below down_threshold leaves
\* requested_freq unchanged and sends no request.
C15_ZeroStepsHold ==
  [][/\ (CycleRan /\ MaxLoad(last'.arg) > dbs_tuners_ins.up_threshold
            /\ dbs_tuners_ins.freq_step_up = 0) => CycleHolds
     /\ (CycleRan /\ MaxLoad(last'.arg) < dbs_tuners_ins.down_threshold
            /\ dbs_tuners_ins.freq_step_down = 0) => CycleHolds]_vars

\* the first cycle after an activation, with every cpu busy all the time
\* (load 100) and freq_step_up = 0, has run and has sent nothing
C15_Witness ==
  /\ cycles = 1 /\ last.op = "do_dbs_timer"
  /\ dbs_tuners_ins.freq_step_up = 0
  /\ \A j \in CPUS : last.arg[j].wall > 0 /\ last.arg[j].idle = 0
  /\ last.reqs = <<>>
  /\ dbs_info[0].requested_freq = policy[0].cur
  /\ dbs_info[0].requested_freq < policy[0].max

\* a step is an accepted write of sampling_rate
RateWritten ==
  /\ last'.op = "sampling_rate" /\ last'.ret = COUNT
  /\ jiffies' = jiffies /\ cycles' = cycles
\* the wake time one new period after the write
NewWake == jiffies + usecs_to_jiffies(dbs_tuners_ins'.sampling_rate)

\* C16: when a sampling_rate write is applied to an active unit with a
\* pending fire, the fire is cancelled and a new one scheduled one new period
\* after the write if and only if now + new period is earlier than the
\* scheduled fire time; otherwise the unit's scheduled fire is left as it was.
C16_LivePeriodChange ==
  [][RateWritten =>
       \A c \in ActiveUnits :
         work[c].pending =>
           IF NewWake < work[c].expires
           THEN work'[c].pending /\ work'[c].expires = NewWake
           ELSE work'[c] = work[c]]_vars

\* a write has moved the pending fire of unit 0 off the jiffy every cpu
\* samples on, to one new period after the write
C16_Witness ==
  /\ last.op = "sampling_rate" /\ last.ret = COUNT
  /\ dbs_info[0].enable /\ work[0].pending
  /\ work[0].expires = jiffies + usecs_to_jiffies(dbs_tuners_ins.sampling_rate)
  /\ jiffies % usecs_to_jiffies(dbs_tuners_ins.sampling_rate) # 0

\* the requests of the last handler for the policy of unit c that ask for
\* the awake rate, at least
AwakeRequests(c) ==
  {i \in DOMAIN last.reqs :
     /\ last.reqs[i].policy = cpufreq_cpu_get(policy, c)
     /\ last.reqs[i].target = dbs_tuners_ins.freq_awake
     /\ last.reqs[i].relation = CPUFREQ_RELATION_L}
\* a resume with the suspend override enabled has just been handled
ResumedWithOverride ==
  last.op = "resume" /\ dbs_tuners_ins.freq_max_suspend # 0

\* C17: on a resume with the suspend override enabled (freq_max_suspend # 0),
\* for every active unit exactly one rate request with target freq_awake and
\* relation "at least" is issued, and it is the only request of the resume for
\* that unit (no zone decision is made); the handler completes.
C17_ResumeForcesAwake ==
  ResumedWithOverride =>
    /\ ~oops
    /\ \A c \in ActiveUnits :
         /\ Cardinality(AwakeRequests(c)) = 1
         /\ \A i \in DOMAIN last.reqs :
              last.reqs[i].policy = cpufreq_cpu_get(policy, c) => i \in AwakeRequests(c)

\* a step is a suspend or a resume event
PowerEvent == power_state' # power_state

\* C18: while freq_max_suspend is 0, a suspend event and a resume event
\* change no policy's ceiling or reported maximum, no unit's snapshots or
\* requested_freq (nothing of the policies and of the per-cpu data), and the
\* handler issues no request to the rate driver.
C18_OverrideDisabledNoOp ==
  [][(PowerEvent /\ dbs_tuners_ins.freq_max_suspend = 0) =>
       /\ policy' = policy
       /\ dbs_info' = dbs_info
       /\ registered.power => last'.reqs = <<>>]_vars

\* a resume has been handled with the override disabled and a unit active
C18_Witness ==
  /\ last.op = "resume"
  /\ dbs_tuners_ins.freq_max_suspend = 0
  /\ dbs_info[0].enable
  /\ ~suspended

\* a step is CPUFREQ_GOV_START for cpu c
StartStepOf(c) == last'.op = "GOV_START" /\ last'.cpu = c

\* C19: if creating the worker pool or the sysfs group fails during an
\* activation, the call returns an error, the unit is not armed, dbs_enable is
\* the same as before the call, and the pool handle, the pools that exist and
\* the subscriptions are as they were.
C19_FailedActivationRollsBack ==
  [][\A c \in CPUS :
       (StartStepOf(c) /\ last'.ret \in {-EFAULT, -ENOMEM}) =>
         /\ ~dbs_info'[c].enable
         /\ ~work'[c].pending
         /\ dbs_enable' = dbs_enable
         /\ dbs_wq' = dbs_wq
         /\ pools' = pools
         /\ registered' = registered]_vars

\* C20: CPUFREQ_GOV_START for a cpu that is offline or whose policy reports
\* a current rate of 0 returns -EINVAL and touches nothing: dbs_enable, the
\* pool handle and the pools, the per-cpu data, the delayed works, the unit's
\* lock, the subscriptions and min_sampling_rate are unchanged, and the unit
\* has no pending work.
C20_UnavailableFailsFast ==
  [][\A c \in CPUS :
       (StartStepOf(c) /\ (policy[c].cur = 0 \/ last'.ret = -EINVAL)) =>
         /\ last'.ret = -EINVAL
         /\ dbs_enable' = dbs_enable
         /\ dbs_wq' = dbs_wq /\ pools' = pools
         /\ dbs_info' = dbs_info
         /\ work' = work /\ ~work'[c].pending
         /\ timer_mutex' = timer_mutex
         /\ registered' = registered
         /\ min_sampling_rate' = min_sampling_rate
         /\ suspended' = suspended]_vars

\* the activation of cpu 1, whose policy reports no current rate, has been
\* refused while unit 0 is active
C20_Witness ==
  /\ last.op = "GOV_START" /\ last.cpu = 1 /\ last.ret = -EINVAL
  /\ policy[1].cur = 0
  /\ dbs_info[0].enable /\ dbs_enable = 1
  /\ ~dbs_info[1].enable /\ ~work[1].pending

\* the first activation has computed min_sampling_rate and units are active
MinimumComputed == dbs_enable > 0 /\ registered.sysfs

\* C21: in every state after the first activation has computed
\* min_sampling_rate, sampling_rate >= min_sampling_rate, for the default
\* period that was never written and after any sequence of writes.
C21_PeriodLowerBound ==
  MinimumComputed => dbs_tuners_ins.sampling_rate >= min_sampling_rate

\* C22: a write that shortens sampling_rate while a unit's cycle is running
\* reaches that cycle's re-queue: once the writer has returned and no cycle
\* is running, no active unit has a pending work that expires later than one
\* period (the current sampling_rate) from now.
C22_ShortenedPeriodReachesCycle ==
  (~oops /\ IsIdle("sysfs") /\ IsIdle("kworker")) =>
    \A c \in ActiveUnits :
      work[c].pending =>
        work[c].expires <= jiffies + usecs_to_jiffies(dbs_tuners_ins.sampling_rate)

\* C23: a unit that is activated and not deactivated always has its next
\* cycle ahead: with every handler one step, an active unit's work is
\* pending after every step, whatever other units, the power state and the
\* cycles do.
C23_NoCycleMissed ==
  \A c \in ActiveUnits : work[c].pending

\* C24: the power-state subscription is held exactly while dbs_enable is
\* greater than zero: registered on the first activation, released only on
\* the last deactivation, so suspend and resume events are delivered while
\* any unit remains active.
C24_PowerSubscriptionLifetime ==
  ~oops => (registered.power <=> dbs_enable > 0)

\* a step is a rate change of policy p notified to the governor
Notified(p) ==
  last'.op = "notifier" /\ last'.cpu = p /\ policy'[p].cur # policy[p].cur
\* requested_freq of cpu c is outside the range of the policy it refers to
Drifted(c) ==
  \/ dbs_info[c].requested_freq > policy[dbs_info[c].cur_policy].max
  \/ dbs_info[c].requested_freq < policy[dbs_info[c].cur_policy].min

\* C25: on a rate-change notification, requested_freq of an active unit is
\* set to the notified rate if and only if it is above the policy's max or
\* below its min; inside [min, max] it is left unchanged, and the per-cpu
\* data of a cpu that is not active is not changed.
C25_NotifierResyncsDrift ==
  [][\A p \in CPUS : Notified(p) =>
       \A c \in policy[p].cpus :
         IF dbs_info[c].enable /\ Drifted(c)
         THEN dbs_info'[c] = [dbs_info[c] EXCEPT !.requested_freq = policy'[p].cur]
         ELSE dbs_info'[c] = dbs_info[c]]_vars

\* a notification has found requested_freq of the active unit 0 outside the
\* range and has replaced it by the notified rate
C25_Witness ==
  /\ last.op = "notifier" /\ last.cpu = 0
  /\ dbs_info[0].enable
  /\ \/ last.arg.requested_freq[0] > policy[0].max
     \/ last.arg.requested_freq[0] < policy[0].min
  /\ dbs_info[0].requested_freq = last.arg.new
  /\ dbs_info[0].requested_freq # last.arg.requested_freq[0]

\* the idle delta of a cpu with the nice time added when ignore_nice is set
InflatedIdle(this, r) ==
  IF dbs_tuners_ins.ignore_nice # 0
  THEN U32(IdleDelta(this, r)
           + jiffies_to_usecs((r.nice - this.prev_cpu_nice) % TimeMod))
  ELSE IdleDelta(this, r)
\* the cpus of the cycle's group whose sample is valid
ValidUnits(src) ==
  {j \in CyclePolicy.cpus :
     /\ WallDelta(dbs_info[j], src[j]) # 0
     /\ InflatedIdle(dbs_info[j], src[j]) <= WallDelta(dbs_info[j], src[j])}
\* the load of one cpu
UnitLoad(j, src) ==
  (100 * (WallDelta(dbs_info[j], src[j]) - InflatedIdle(dbs_info[j], src[j])))
    \div WallDelta(dbs_info[j], src[j])

\* C26: the load a cycle selects its zone with is the maximum, over the cpus
\* of the group whose sample is valid (wall_delta # 0, idle_delta <=
\* wall_delta), of floor(100 * (wall_delta - idle_delta) / wall_delta), and
\* the previous wall and idle counters of every cpu of the group are advanced
\* to the values just read, valid sample or not.
C26_GroupLoadIsMaximum ==
  [][CycleRan =>
       /\ ValidUnits(last'.arg) # {} =>
            MaxLoad(last'.arg) =
              SetMax({UnitLoad(j, last'.arg) : j \in ValidUnits(last'.arg)})
       /\ \A j \in CyclePolicy.cpus :
            /\ dbs_info'[j].prev_cpu_wall = jiffies_to_usecs(last'.arg[j].wall)
            /\ dbs_info'[j].prev_cpu_idle = jiffies_to_usecs(last'.arg[j].idle)]_vars

\* the first cycle after the activation: cpu 0 was fully busy, cpu 1 half
\* idle, so the group's load is 100 and the rate was stepped up
C26_Witness ==
  /\ last.op = "do_dbs_timer" /\ cycles = 1
  /\ dbs_tuners_ins.ignore_nice = 0
  /\ last.arg[0] = Reading(2, 0, 0, 0)
  /\ last.arg[1] = Reading(2, 1, 0, 0)
  /\ dbs_info[1].prev_cpu_idle = jiffies_to_usecs(1)
  /\ dbs_info[0].requested_freq > InitCur

\* the first cycle after the activation: the sample of cpu 1 is not valid
\* (no wall time has passed) and its counters are advanced all the same
C26_WitnessSkipped ==
  /\ last.op = "do_dbs_timer" /\ cycles = 1
  /\ last.arg[0] = Reading(2, 1, 0, 0)
  /\ last.arg[1] = Reading(0, 1, 0, 0)
  /\ dbs_info[1].prev_cpu_idle = jiffies_to_usecs(1)

\* C27: after CPUFREQ_GOV_START has succeeded for a unit u, u's per-cpu data
\* refers to u's own policy, requested_freq is that policy's current rate,
\* down_skip is 0, the snapshots hold that policy's ceiling and reported
\* maximum, and the counter baselines are the counters read at activation.
C27_ActivationInitializesOwnState ==
  (last.op = "GOV_START" /\ last.ret = 0) =>
    LET u == last.cpu
        own == cpufreq_cpu_get(policy, u)
    IN  /\ dbs_info[u].cur_policy = own
        /\ dbs_info[u].requested_freq = policy[own].cur
        /\ dbs_info[u].down_skip = 0
        /\ dbs_info[u].cpu_maxcur_freq = policy[own].max
        /\ dbs_info[u].cpu_max_freq = policy[own].cpuinfo_max_freq
        /\ dbs_info[u].prev_cpu_wall = jiffies_to_usecs(StoreReading[u].wall)
        /\ dbs_info[u].prev_cpu_idle = get_cpu_idle_time(dbs_tuners_ins, StoreReading[u])

\* a step is a change of the range of policy p handled by CPUFREQ_GOV_LIMITS
LimitsEvent(p) ==
  /\ last'.op = "GOV_LIMITS" /\ last'.cpu = p
  /\ <<policy'[p].min, policy'[p].max>> # <<policy[p].min, policy[p].max>>
\* the requests CPUFREQ_GOV_LIMITS is to issue for policy p at the rate cur
\* in the new range [min, max]
LimitsRequests(p, cur, min, max) ==
  IF max < cur
  THEN <<[policy |-> p, target |-> max, relation |-> CPUFREQ_RELATION_H]>>
  ELSE IF min > cur
  THEN <<[policy |-> p, target |-> min, relation |-> CPUFREQ_RELATION_L]>>
  ELSE <<>>

\* C28: when the range of an active unit changes, CPUFREQ_GOV_LIMITS issues
\* exactly one request (new max, at most) if the current rate is above the new
\* max, exactly one (new min, at least) if it is below the new min, and none
\* otherwise; afterwards the current rate lies in the new range; and
\* requested_freq changes only where the transition notifier, called for the
\* change of rate, finds it outside the new range.
C28_LimitsClampsRate ==
  [][\A p \in CPUS : (LimitsEvent(p) /\ dbs_info[p].enable) =>
       /\ last'.reqs =
            LimitsRequests(p, policy[p].cur, policy'[p].min, policy'[p].max)
       /\ policy'[p].min <= policy'[p].cur /\ policy'[p].cur <= policy'[p].max
       /\ dbs_info'[p].requested_freq =
            IF /\ policy'[p].cur # policy[p].cur
               /\ \/ dbs_info[p].requested_freq > policy'[p].max
                  \/ dbs_info[p].requested_freq < policy'[p].min
            THEN policy'[p].cur
            ELSE dbs_info[p].requested_freq]_vars

\* the range was narrowed below the current rate and the rate brought down
\* to the new max by one request
C28_Witness ==
  /\ last.op = "GOV_LIMITS" /\ dbs_info[0].enable
  /\ last.reqs = <<[policy |-> 0, target |-> policy[0].max,
                    relation |-> CPUFREQ_RELATION_H]>>
  /\ policy[0].cur = policy[0].max

\* the range was raised above the current rate and the rate brought up to
\* the new min by one request
C28_WitnessBelow ==
  /\ last.op = "GOV_LIMITS" /\ dbs_info[0].enable
  /\ last.reqs = <<[policy |-> 0, target |-> policy[0].min,
                    relation |-> CPUFREQ_RELATION_L]>>
  /\ policy[0].cur = policy[0].min

\* CPUFREQ_GOV_LIMITS enters its comparison (line 844) with the unit's
\* timer_mutex just taken (line 843), and leaves it by releasing the mutex
LimitsTakesLock ==
  [][\A t \in {"cpufreq", "power"} :
       /\ (pc[t].at # "limits" /\ pc'[t].at = "limits") =>
            (timer_mutex[UnitAt(t)] = Free /\ timer_mutex'[UnitAt(t)] = t)
       /\ (pc[t].at = "limits_unlock" /\ pc'[t].at # "limits_unlock") =>
            timer_mutex'[UnitAt(t)] = Free]_vars

\* a step of a handler that has been entered and has not returned
ConcProgress ==
  \/ KLock
  \/ KCheck(UnitsReading)
  \/ \E ub \in UB : KQueue(ub)
  \/ KUnlock
  \/ WLock
  \/ WTest
  \/ WCancel
  \/ WRelock
  \/ \E ub \in UB : WQueue(ub)
  \/ WUnlock
  \/ GStopCancel
  \/ GStopLock
  \/ \E ub \in UB : GStopBody(ub)
  \/ GStopUnlock
  \/ \E t \in {"cpufreq", "power"} : LimitsLock(t)
  \/ \E t \in {"cpufreq", "power"} : LimitsBody(t)
  \/ \E t \in {"cpufreq", "power"} : LimitsUnlock(t)
  \/ PCeiling
  \/ PUpdate
  \/ PAwake

\* the timer_mutex of unit c is held
Held(c) == timer_mutex[c] # Free
\* thread t is at a step that waits: for a mutex that is held, in
\* cancel_delayed_work_sync for a work function that is running, or in
\* sysfs_remove_group for a store that is in progress
Waiting(t) ==
  \/ t = "kworker" /\ pc[t].at = "lock" /\ Held(pc[t].cpu)
  \/ t = "sysfs" /\ pc[t].at \in {"loop", "relock"} /\ Held(UnitAt(t))
  \/ t = "sysfs" /\ pc[t].at = "cancel" /\ Running(UnitAt(t))
  \/ t = "cpufreq" /\ pc[t].at = "stop_cancel" /\ Running(pc[t].cpu)
  \/ t = "cpufreq" /\ pc[t].at = "stop_lock" /\ dbs_mutex # Free
  \/ t = "cpufreq" /\ pc[t].at = "stop_unlock" /\ dbs_enable = 0 /\ ~IsIdle("sysfs")
  \/ t \in {"cpufreq", "power"} /\ pc[t].at = "limits_lock" /\ Held(UnitAt(t))

\* C29: no interleaving of a cycle, a sampling_rate write, a range-limit
\* event, an activation or deactivation and a suspend or resume reaches a
\* state in which handlers are blocked forever waiting for each other: while
\* any handler is between its entry and its return, some such handler can
\* take a step.
C29_DeadlockFree ==
  (~oops /\ \E t \in Threads : ~IsIdle(t)) =>
    \E t \in Threads : ~IsIdle(t) /\ ~Waiting(t)

\* Waiting names the states in which a handler's next step is disabled: some
\* handler in progress is not waiting exactly when a step of ConcProgress is
\* enabled
WaitingIsDisabled ==
  ~oops => ((\E t \in Threads : ~IsIdle(t) /\ ~Waiting(t)) <=> ENABLED ConcProgress)

\* the cycle waits for the timer_mutex the writer holds, the deactivation
\* waits for the cycle to end
C29_Witness ==
  /\ ~oops
  /\ pc["kworker"].at = "lock" /\ timer_mutex[pc["kworker"].cpu] = "sysfs"
  /\ pc["cpufreq"].at = "stop_cancel" /\ pc["cpufreq"].cpu = pc["kworker"].cpu

(* ------------- the I/O schedulers: side and zenplus -------------------- *)
\* The request queue has one I/O scheduler attached at a time; its data is
\* elevator_data.  A request is its direction, whether it is synchronous and
\* its FIFO deadline; a FIFO list is the sequence of its requests, head
\* first.  Requests are removed only by dispatch: merges are not modelled.

\* rq_data_dir(rq)
READ == 0
WRITE == 1
\* enum zenplus_data_dir
ASYNC == 0
SYNC == 1
Dirs == {READ, WRITE}
Classes == {ASYNC, SYNC}
\* jiffies in one second
HZ == 1000000 \div USECS_PER_JIFFY
\* INT_MAX of the 30-bit integers of this model
INT_MAX == UINT_MOD - 1
\* msecs_to_jiffies rounds up
msecs_to_jiffies(m) == (m * 1000 + USECS_PER_JIFFY - 1) \div USECS_PER_JIFFY
\* time_after(a, b) of two times the clock has not wrapped between
time_after(a, b) == a > b

\* a null struct request pointer
NoRequest == [dir |-> NULL, sync |-> NULL, fifo_time |-> NULL]
Request(dir, is_sync, fifo_time) == [dir |-> dir, sync |-> is_sync, fifo_time |-> fifo_time]

\* the most requests queued in the scheduler at a time
MaxQueued == 3
\* the most reads dispatched in a row
MaxStarved == 3
\* the expiry time written to every expiry tunable, in milliseconds, and the
\* batch sizes and starvation limits written
ExpireWritten == 10
BatchWrites == {1}
StarvedWrites == {1}

\* STORE_FUNCTION: the value clamped into [MIN, MAX], converted from
\* milliseconds when the tunable is a time
StoreValue(data, min, max, conv) ==
  LET clamped == IF data < min THEN min ELSE IF data > max THEN max ELSE data
  IN  IF conv THEN msecs_to_jiffies(clamped) ELSE clamped

\* the state of the governor, which the I/O schedulers leave alone
governor == <<dbs_tuners_ins, min_sampling_rate, suspended, dbs_info, policy,
              dbs_enable, dbs_wq, pools, work, registered, power_state, oops,
              cycles, before_suspend, pc, timer_mutex, dbs_mutex>>

\* what a dispatch records: whether the expired-request check ran and what
\* it returned
DispatchArg(checked, expired) == [checked |-> checked, expired |-> expired]

(* side *)
side_read_expire == HZ \div 4
side_write_expire == 2 * HZ
side_fifo_batch == 16

\* side_init_queue: empty lists, default tunables (batching is not set by the
\* code; the allocation is taken as zeroed)
side_init_queue ==
  [elevator_name |-> "side",
   fifo_list |-> [d \in Dirs |-> <<>>],
   batching |-> 0,
   fifo_expire |-> [d \in Dirs |-> IF d = READ THEN side_read_expire ELSE side_write_expire],
   fifo_batch |-> side_fifo_batch]

\* side_add_request: the deadline is now plus the direction's expiry time
\* (side never looks at the request's class)
side_add_request(sdata, dir, now) ==
  [sdata EXCEPT !.fifo_list[dir] =
     Append(@, Request(dir, SYNC, now + sdata.fifo_expire[dir]))]

\* side_expired_request: the head of the direction's list if its deadline has passed
side_expired_request(sdata, ddir, now) ==
  IF sdata.fifo_list[ddir] = <<>>
  THEN NoRequest
  ELSE LET rq == Head(sdata.fifo_list[ddir])
       IN  IF time_after(now, rq.fifo_time) THEN rq ELSE NoRequest

\* side_check_fifo
side_check_fifo(sdata, now) ==
  LET rq_read == side_expired_request(sdata, READ, now)
      rq_write == side_expired_request(sdata, WRITE, now)
  IN  IF rq_read # NoRequest /\ rq_write # NoRequest
      THEN IF time_after(rq_write.fifo_time, rq_read.fifo_time)
           THEN rq_read
           ELSE NoRequest
      ELSE IF rq_read # NoRequest THEN rq_read
      ELSE IF rq_write # NoRequest THEN rq_write
      ELSE NoRequest

\* side_choose_request: the head of the read list, else of the write list
side_choose_request(sdata) ==
  IF sdata.fifo_list[READ] # <<>> THEN Head(sdata.fifo_list[READ])
  ELSE IF sdata.fifo_list[WRITE] # <<>> THEN Head(sdata.fifo_list[WRITE])
  ELSE NoRequest

\* side_dispatch: rq, the head of its list, leaves the list
side_dispatch(sdata, rq) ==
  [sdata EXCEPT !.fifo_list[rq.dir] = Tail(@), !.batching = U32(@ + 1)]

\* side_dispatch_requests: the data after the call, the return value and what
\* the call did
side_dispatch_requests(sdata, now) ==
  LET checked == sdata.batching > sdata.fifo_batch
      s1 == IF checked THEN [sdata EXCEPT !.batching = 0] ELSE sdata
      expired == IF checked THEN side_check_fifo(s1, now) ELSE NoRequest
      rq == IF expired # NoRequest THEN expired ELSE side_choose_request(s1)
  IN  IF rq = NoRequest
      THEN [data |-> s1, ret |-> 0, arg |-> DispatchArg(checked, expired)]
      ELSE [data |-> side_dispatch(s1, rq), ret |-> 1,
            arg |-> DispatchArg(checked, expired)]

QueueDepth(data) ==
  IF data.elevator_name = "side"
  THEN Len(data.fifo_list[READ]) + Len(data.fifo_list[WRITE])
  ELSE Len(data.fifo_list[SYNC][READ]) + Len(data.fifo_list[SYNC][WRITE])
       + Len(data.fifo_list[ASYNC][READ]) + Len(data.fifo_list[ASYNC][WRITE])

SideAddRequest(dir) ==
  /\ elevator_data.elevator_name = "side"
  /\ QueueDepth(elevator_data) < MaxQueued
  /\ elevator_data' = side_add_request(elevator_data, dir, jiffies)
  /\ UNCHANGED <<governor, last, jiffies>>

SideDispatchRequests ==
  /\ elevator_data.elevator_name = "side"
  /\ LET r == side_dispatch_requests(elevator_data, jiffies)
     IN  /\ elevator_data' = r.data
         /\ last' = [Last("side_dispatch_requests", 0, r.ret, <<>>) EXCEPT !.arg = r.arg]
  /\ UNCHANGED <<governor, jiffies>>

\* the stores of read_expire, write_expire and fifo_batch
side_store(sdata, attr, data) ==
  CASE attr = "read_expire" ->
         [sdata EXCEPT !.fifo_expire[READ] = StoreValue(data, 0, INT_MAX, TRUE)]
    [] attr = "write_expire" ->
         [sdata EXCEPT !.fifo_expire[WRITE] = StoreValue(data, 0, INT_MAX, TRUE)]
    [] attr = "fifo_batch" ->
         [sdata EXCEPT !.fifo_batch = StoreValue(data, 0, INT_MAX, FALSE)]

SideStore(attr, data) ==
  /\ elevator_data.elevator_name = "side"
  /\ elevator_data' = side_store(elevator_data, attr, data)
  /\ UNCHANGED <<governor, last, jiffies>>

\* the side scheduler attached to the queue, with both expiry times and
\* fifo_batch written
SideConfigured ==
  side_store(side_store(side_store(side_init_queue,
    "read_expire", ExpireWritten), "write_expire", ExpireWritten),
    "fifo_batch", 0)

(* zenplus *)
sync_read_expire == HZ \div 4
sync_write_expire == 2 * HZ
async_read_expire == 4 * HZ
async_write_expire == 16 * HZ
writes_starved == 4
zenplus_fifo_batch == 8

zenplus_init_queue ==
  [elevator_name |-> "zenplus",
   fifo_list |-> [s \in Classes |-> [d \in Dirs |-> <<>>]],
   batching |-> 0,
   starved |-> 0,
   fifo_expire |->
     [s \in Classes |-> [d \in Dirs |->
        IF s = SYNC
        THEN IF d = READ THEN sync_read_expire ELSE sync_write_expire
        ELSE IF d = READ THEN async_read_expire ELSE async_write_expire]],
   fifo_batch |-> zenplus_fifo_batch,
   writes_starved |-> writes_starved]

\* zenplus_add_request: a request whose class and direction have expiry time
\* 0 is put on no list
zenplus_add_request(znp, is_sync, dir, now) ==
  IF znp.fifo_expire[is_sync][dir] # 0
  THEN [znp EXCEPT !.fifo_list[is_sync][dir] =
          Append(@, Request(dir, is_sync, now + znp.fifo_expire[is_sync][dir]))]
  ELSE znp

zenplus_expired_request(znp, is_sync, data_dir, now) ==
  IF znp.fifo_list[is_sync][data_dir] = <<>>
  THEN NoRequest
  ELSE LET req == Head(znp.fifo_list[is_sync][data_dir])
       IN  IF time_after(now, req.fifo_time) THEN req ELSE NoRequest

zenplus_choose_expired_request(znp, now) ==
  LET sync_req_read == zenplus_expired_request(znp, SYNC, READ, now)
      sync_req_write == zenplus_expired_request(znp, SYNC, WRITE, now)
      async_req_read == zenplus_expired_request(znp, ASYNC, READ, now)
      async_req_write == zenplus_expired_request(znp, ASYNC, WRITE, now)
  IN  IF async_req_read # NoRequest /\ sync_req_read # NoRequest
      THEN IF time_after(async_req_read.fifo_time, sync_req_read.fifo_time)
           THEN sync_req_read
           ELSE IF time_after(sync_req_read.fifo_time, async_req_read.fifo_time)
           THEN async_req_read
           ELSE NoRequest
      ELSE IF async_req_write # NoRequest /\ sync_req_write # NoRequest
      THEN IF time_after(async_req_write.fifo_time, sync_req_write.fifo_time)
           THEN sync_req_write
           ELSE IF time_after(sync_req_write.fifo_time, async_req_write.fifo_time)
           THEN async_req_write
           ELSE NoRequest
      ELSE IF sync_req_read # NoRequest THEN sync_req_read
      ELSE IF sync_req_write # NoRequest THEN sync_req_write
      ELSE IF async_req_read # NoRequest THEN async_req_read
      ELSE IF async_req_write # NoRequest THEN async_req_write
      ELSE NoRequest

\* zenplus_choose_request: synchronous before asynchronous, data_dir before
\* the other direction
zenplus_choose_request(znp, data_dir) ==
  LET other == 1 - data_dir
  IN  IF znp.fifo_list[SYNC][data_dir] # <<>> THEN Head(znp.fifo_list[SYNC][data_dir])
      ELSE IF znp.fifo_list[ASYNC][data_dir] # <<>> THEN Head(znp.fifo_list[ASYNC][data_dir])
      ELSE IF znp.fifo_list[SYNC][other] # <<>> THEN Head(znp.fifo_list[SYNC][other])
      ELSE IF znp.fifo_list[ASYNC][other] # <<>> THEN Head(znp.fifo_list[ASYNC][other])
      ELSE NoRequest

\* zenplus_dispatch: req, the head of its list, leaves the list; a write
\* clears starved, a read counts
zenplus_dispatch(znp, req) ==
  [znp EXCEPT !.fifo_list[req.sync][req.dir] = Tail(@),
              !.batching = U32(@ + 1),
              !.starved = IF req.dir # 0 THEN 0 ELSE U32(@ + 1)]

zenplus_dispatch_requests(znp, now) ==
  LET checked == znp.batching > znp.fifo_batch
      z1 == IF checked THEN [znp EXCEPT !.batching = 0] ELSE znp
      expired == IF checked THEN zenplus_choose_expired_request(z1, now) ELSE NoRequest
      data_dir == IF z1.starved > z1.writes_starved THEN WRITE ELSE READ
      rq == IF expired # NoRequest THEN expired ELSE zenplus_choose_request(z1, data_dir)
  IN  IF rq = NoRequest
      THEN [data |-> z1, ret |-> 0, arg |-> DispatchArg(checked, expired), rq |-> rq]
      ELSE [data |-> zenplus_dispatch(z1, rq), ret |-> 1,
            arg |-> DispatchArg(checked, expired), rq |-> rq]

ZenplusAddRequest(is_sync, dir) ==
  /\ elevator_data.elevator_name = "zenplus"
  /\ QueueDepth(elevator_data) < MaxQueued
  /\ elevator_data' = zenplus_add_request(elevator_data, is_sync, dir, jiffies)
  /\ UNCHANGED <<governor, last, jiffies>>

ZenplusDispatchRequests ==
  /\ elevator_data.elevator_name = "zenplus"
  /\ elevator_data.starved < MaxStarved
  /\ LET r == zenplus_dispatch_requests(elevator_data, jiffies)
     IN  /\ elevator_data' = r.data
         /\ last' = [Last("zenplus_dispatch_requests", 0, r.ret, <<>>) EXCEPT !.arg = r.arg]
  /\ UNCHANGED <<governor, jiffies>>

\* the stores of the four expiry times, fifo_batch and writes_starved
zenplus_store(znp, attr, data) ==
  CASE attr = "sync_read_expire" ->
         [znp EXCEPT !.fifo_expire[SYNC][READ] = StoreValue(data, 0, INT_MAX, TRUE)]
    [] attr = "sync_write_expire" ->
         [znp EXCEPT !.fifo_expire[SYNC][WRITE] = StoreValue(data, 0, INT_MAX, TRUE)]
    [] attr = "async_read_expire" ->
         [znp EXCEPT !.fifo_expire[ASYNC][READ] = StoreValue(data, 0, INT_MAX, TRUE)]
    [] attr = "async_write_expire" ->
         [znp EXCEPT !.fifo_expire[ASYNC][WRITE] = StoreValue(data, 0, INT_MAX, TRUE)]
    [] attr = "fifo_batch" ->
         [znp EXCEPT !.fifo_batch = StoreValue(data, 0, INT_MAX, FALSE)]
    [] attr = "writes_starved" ->
         [znp EXCEPT !.writes_starved = StoreValue(data, 0, INT_MAX, FALSE)]

ZenplusStore(attr, data) ==
  /\ elevator_data.elevator_name = "zenplus"
  /\ elevator_data' = zenplus_store(elevator_data, attr, data)
  /\ UNCHANGED <<governor, last, jiffies>>

\* the zenplus scheduler attached to the queue, with the four expiry times
\* and fifo_batch written
ZenplusConfigured ==
  zenplus_store(zenplus_store(zenplus_store(zenplus_store(zenplus_store(zenplus_init_queue,
    "sync_read_expire", ExpireWritten), "sync_write_expire", ExpireWritten),
    "async_read_expire", ExpireWritten), "async_write_expire", ExpireWritten),
    "fifo_batch", 0)

\* the governor is not in use; the queue has one of the two schedulers, its
\* tunables written
InitElevator ==
  /\ InitGovernor(SharedPolicy)
  /\ elevator_data \in {SideConfigured, ZenplusConfigured}

\* the queue's scheduler is fed, drained and retuned while the clock runs
NextElevator ==
  \/ \E dir \in Dirs : SideAddRequest(dir)
  \/ SideDispatchRequests
  \/ \E data \in BatchWrites : SideStore("fifo_batch", data)
  \/ \E is_sync \in Classes, dir \in Dirs : ZenplusAddRequest(is_sync, dir)
  \/ ZenplusDispatchRequests
  \/ \E data \in BatchWrites : ZenplusStore("fifo_batch", data)
  \/ \E data \in StarvedWrites : ZenplusStore("writes_starved", data)
  \/ Tick

SpecElevator == InitElevator /\ [][NextElevator]_vars

(* zenplus, with the reads that pass a queued write counted *)
\* the starvation limit written
StarvedWritten == 1
\* a write is queued
WriteQueued(znp) ==
  znp.fifo_list[SYNC][WRITE] # <<>> \/ znp.fifo_list[ASYNC][WRITE] # <<>>
\* the reads dispatched in a row, up to the last dispatch, while a write was
\* queued: what the dispatches of SpecStarve record next to their result
ReadsAhead ==
  IF last.op = "zenplus_dispatch_requests" THEN last.arg.ahead ELSE 0
\* the count after a dispatch of rq from the scheduler state znp: a read that
\* passes a queued write counts, any other dispatch starts the count again
CountAhead(znp, rq, ahead) ==
  IF rq # NoRequest /\ rq.dir = READ /\ WriteQueued(znp) THEN ahead + 1 ELSE 0

\* zenplus_dispatch_requests, recording also the count of reads ahead of a
\* queued write
StarveDispatch ==
  /\ elevator_data.elevator_name = "zenplus"
  /\ elevator_data.starved < MaxStarved
  /\ LET r == zenplus_dispatch_requests(elevator_data, jiffies)
         arg == [checked |-> r.arg.checked, expired |-> r.arg.expired,
                 ahead |-> CountAhead(elevator_data, r.rq, ReadsAhead)]
     IN  /\ elevator_data' = r.data
         /\ last' = [Last("zenplus_dispatch_requests", 0, r.ret, <<>>) EXCEPT !.arg = arg]
  /\ UNCHANGED <<governor, jiffies>>

\* the governor is not in use; the queue has the zenplus scheduler, its
\* expiry times, fifo_batch and writes_starved written
InitStarve ==
  /\ InitGovernor(SharedPolicy)
  /\ elevator_data = zenplus_store(ZenplusConfigured, "writes_starved", StarvedWritten)

\* requests are added and dispatched while the clock runs; writes_starved
\* stays as written
NextStarve ==
  \/ \E is_sync \in Classes, dir \in Dirs : ZenplusAddRequest(is_sync, dir)
  \/ StarveDispatch
  \/ \E data \in BatchWrites : ZenplusStore("fifo_batch", data)
  \/ Tick

SpecStarve == InitStarve /\ [][NextStarve]_vars

(* --------------------- expired-request selection ------------------------ *)
\* the FIFO lists of the scheduler: a direction for side, a class and a
\* direction for zenplus
FifoLists(data) ==
  IF data.elevator_name = "side"
  THEN {data.fifo_list[d] : d \in Dirs}
  ELSE {data.fifo_list[s][d] : s \in Classes, d \in Dirs}
\* the FIFO heads whose deadline has passed at time now
ExpiredHeads(data, now) ==
  {Head(l) : l \in {f \in FifoLists(data) : f # <<>> /\ now > Head(f).fifo_time}}
\* a step is a dispatch call: only a dispatch takes a request off a list or
\* changes batching
DispatchStep ==
  \/ QueueDepth(elevator_data') < QueueDepth(elevator_data)
  \/ elevator_data'.batching # elevator_data.batching
\* a dispatch call that runs the expired-request check
CheckedDispatch ==
  DispatchStep /\ elevator_data.batching > elevator_data.fifo_batch
\* the check returns no request exactly when no head is expired, and else an
\* expired head
SelectsExpired ==
  LET expired == last'.arg.expired
      heads == ExpiredHeads(elevator_data, jiffies)
  IN  /\ last'.arg.checked
      /\ (expired = NoRequest) <=> (heads = {})
      /\ expired # NoRequest => expired \in heads

\* C30: whenever a dispatch runs the expired-request check (side_check_fifo,
\* zenplus_choose_expired_request), the check returns no request only when
\* no FIFO head has passed its deadline, and when at least one head is
\* expired it returns an expired head, whichever heads are expired and
\* however their deadlines are ordered.
C30_ExpiredSelection ==
  [][CheckedDispatch => SelectsExpired]_vars

\* the same for each scheduler alone
SideSelectsExpired ==
  [][(CheckedDispatch /\ elevator_data.elevator_name = "side") => SelectsExpired]_vars
ZenplusSelectsExpired ==
  [][(CheckedDispatch /\ elevator_data.elevator_name = "zenplus") => SelectsExpired]_vars
\* what the check does get right: it never returns a request that is not an
\* expired head, and it returns one when exactly one head is expired
ReturnsOnlyExpired ==
  [][CheckedDispatch =>
       /\ last'.arg.checked
       /\ last'.arg.expired # NoRequest =>
            last'.arg.expired \in ExpiredHeads(elevator_data, jiffies)
       /\ Cardinality(ExpiredHeads(elevator_data, jiffies)) = 1 =>
            last'.arg.expired \in ExpiredHeads(elevator_data, jiffies)]_vars
\* side returns the read whenever both heads are expired and the write's
\* deadline is the later one
SideReadBeforeLaterWrite ==
  [][(CheckedDispatch /\ elevator_data.elevator_name = "side") =>
       \A r, w \in ExpiredHeads(elevator_data, jiffies) :
         (r.dir = READ /\ w.dir = WRITE /\ w.fifo_time > r.fifo_time) =>
           last'.arg.expired = r]_vars

(* ------------------------- write starvation ----------------------------- *)
\* C31: in the zenplus scheduler, while a write is queued, reads are
\* dispatched ahead of it at most writes_starved times in a row before a
\* write is dispatched, whichever path chooses the dispatched request.
C31_BoundedWriteStarvation ==
  ReadsAhead <= elevator_data.writes_starved

\* not even one read more bounds the reads that pass a queued write
OneMoreReadAhead ==
  ReadsAhead <= elevator_data.writes_starved + 1
\* a dispatch outside the expired-request path passes a queued write only
\* while starved, as the call found it, is at most writes_starved (the read
\* it dispatched has raised starved by one since)
StarvedLimitsChoice ==
  (/\ last.op = "zenplus_dispatch_requests"
   /\ last.arg.expired = NoRequest
   /\ last.arg.ahead > 0) => elevator_data.starved - 1 <= elevator_data.writes_starved
\* so outside the expired-request path at most writes_starved + 1 reads pass
\* a queued write: the reads that pass a queued write are counted by starved
AheadWithinStarved ==
  ReadsAhead <= elevator_data.starved
\* a read is dispatched through the expired-request path although starved
\* was above writes_starved and a write was queued
ExpiredReadPassesWrite ==
  /\ last.op = "zenplus_dispatch_requests"
  /\ last.arg.expired # NoRequest /\ last.arg.expired.dir = READ
  /\ last.arg.ahead > 0
  /\ elevator_data.starved - 1 > elevator_data.writes_starved

============================================================================
